---- MODULE Spec2Model ----
(***************************************************************************)
(* Factor analytics of the dashboard (src/app/page.tsx) and of the factor  *)
(* detail page (src/unnamed/part_003): date-range filter, cumulative       *)
(* curve, maximum drawdown and risk/return metrics; the event alignment    *)
(* of the signal chart, the rank heatmap encoder and the loading of the    *)
(* dashboard's return series.                                              *)
(*                                                                         *)
(* Numbers.  A JavaScript number is an IEEE-754 binary float: a signed     *)
(* integer mantissa times a power of two, every operation rounded to the   *)
(* nearest representable value, ties to the even mantissa.  The model      *)
(* keeps exactly that arithmetic and narrows only the mantissa, from 53    *)
(* bits to MantBits bits (the exponent range is left unbounded: none of    *)
(* the enumerated inputs comes near overflow or underflow of a double).    *)
(* A finite number is the pair <<m, e>> standing for m * 2^e, normalised   *)
(* so that m is odd, or <<0, 0>> for zero.                                 *)
(*                                                                         *)
(* Nullable values.  null is the empty tuple, so that a "number | null"    *)
(* field always holds a tuple.                                             *)
(*                                                                         *)
(* Strings.  A date string is the sequence of its characters.              *)
(*                                                                         *)
(* Runs.  Each component has its own specification (SpecClip, SpecMetrics, *)
(* SpecSignal, SpecHeat, SpecDash; SpecAnalytics joins the first three);   *)
(* the variables of the other components rest at their idle values.        *)
(***************************************************************************)
EXTENDS Integers, Sequences, FiniteSets, TLC

\* ------------------------------------------------------------------ bounds
MantBits == 7      \* mantissa width of the modelled float (53 in a double)
MaxLen == 3        \* longest enumerated series

\* --------------------------------------------------------- float arithmetic
Null == << >>
Zero == <<0, 0>>
One == <<1, 0>>
\* the result of a division by zero (Infinity, -Infinity or NaN)
NotFinite == <<0, 1>>

RECURSIVE Pow2(_)
Pow2(k) == IF k <= 0 THEN 1 ELSE 2 * Pow2(k - 1)

Abs(x) == IF x < 0 THEN -x ELSE x

RECURSIVE FNorm(_, _)
FNorm(m, e) ==
  IF m = 0 THEN Zero
  ELSE IF m % 2 = 0 THEN FNorm(m \div 2, e + 1)
  ELSE <<m, e>>

\* magnitude a/dv * 2^e (a, dv > 0) rounded to MantBits bits, nearest-even
RECURSIVE RoundMag(_, _, _)
RoundMag(a, dv, e) ==
  IF a >= dv * Pow2(MantBits) THEN RoundMag(a, 2 * dv, e + 1)
  ELSE IF a < dv * Pow2(MantBits - 1) THEN RoundMag(2 * a, dv, e - 1)
  ELSE LET q == a \div dv
           r == a % dv
           up == (2 * r > dv) \/ (2 * r = dv /\ q % 2 = 1)
       IN <<IF up THEN q + 1 ELSE q, e>>

\* the float nearest to n/dv * 2^e (dv > 0)
FRound(n, dv, e) ==
  IF n = 0 THEN Zero
  ELSE LET r == RoundMag(Abs(n), dv, e)
       IN FNorm(IF n < 0 THEN -r[1] ELSE r[1], r[2])

MinExp(x, y) == IF x[2] < y[2] THEN x[2] ELSE y[2]

\* mantissa of x once its exponent is lowered to e
Aligned(x, e) == x[1] * Pow2(x[2] - e)

RECURSIVE BitLen(_)
BitLen(a) == IF a = 0 THEN 0 ELSE 1 + BitLen(a \div 2)

\* for x # 0: the T with 2^(T-1) <= |x| < 2^T
Top(x) == x[2] + BitLen(Abs(x[1]))

\* an operand below a quarter of the other's last place leaves it unchanged
FAdd(x, y) ==
  IF x = Zero THEN y
  ELSE IF y = Zero THEN x
  ELSE IF Top(y) <= Top(x) - MantBits - 2 THEN x
  ELSE IF Top(x) <= Top(y) - MantBits - 2 THEN y
  ELSE LET e == MinExp(x, y) IN FRound(Aligned(x, e) + Aligned(y, e), 1, e)

FNeg(x) == <<-x[1], x[2]>>

FSub(x, y) == FAdd(x, FNeg(y))

FMul(x, y) == FRound(x[1] * y[1], 1, x[2] + y[2])

FDiv(x, y) ==
  IF y = Zero THEN NotFinite
  ELSE IF y[1] < 0 THEN FRound(-x[1], -y[1], x[2] - y[2])
  ELSE FRound(x[1], y[1], x[2] - y[2])

FLess(x, y) ==
  IF x = Zero THEN y[1] > 0
  ELSE IF y = Zero THEN x[1] < 0
  ELSE IF x[1] < 0 /\ y[1] > 0 THEN TRUE
  ELSE IF x[1] > 0 /\ y[1] < 0 THEN FALSE
  ELSE IF Top(x) # Top(y) THEN (Top(x) < Top(y)) = (x[1] > 0)
  ELSE LET e == MinExp(x, y) IN Aligned(x, e) < Aligned(y, e)

FLeq(x, y) == x = y \/ FLess(x, y)

\* the float of a small non-negative integer (an array length)
FInt(n) == FNorm(n, 0)

\* floor of the square root of mm, built from the top bit down
RECURSIVE ISqrtFrom(_, _, _)
ISqrtFrom(mm, s, bit) ==
  IF bit = 0 THEN s
  ELSE IF (s + bit) * (s + bit) <= mm THEN ISqrtFrom(mm, s + bit, bit \div 2)
  ELSE ISqrtFrom(mm, s, bit \div 2)

\* mm * 4^j, the first such value that is at least 4^(MantBits+1)
RECURSIVE SqrtScale(_, _)
SqrtScale(mm, j) ==
  IF mm >= Pow2(2 * MantBits + 2) THEN <<mm, j>> ELSE SqrtScale(4 * mm, j + 1)

\* Math.sqrt of a non-negative float, correctly rounded
FSqrt(x) ==
  IF x = Zero THEN Zero
  ELSE LET odd == x[2] % 2 = 1
           m2 == IF odd THEN 2 * x[1] ELSE x[1]
           e2 == IF odd THEN x[2] - 1 ELSE x[2]
           sc == SqrtScale(m2, 0)
           s == ISqrtFrom(sc[1], 0, Pow2(MantBits + 1))
           sticky == s * s # sc[1]
           q == s \div 4
           r == s % 4
           up == r > 2 \/ (r = 2 /\ (sticky \/ q % 2 = 1))
       IN FNorm(IF up THEN q + 1 ELSE q, 2 + (e2 \div 2) - sc[2])

\* ------------------------------------------------------------ date strings
Digits == {"0", "1", "2", "3", "4", "5", "6", "7", "8", "9"}

DigitVal(c) ==
  CASE c = "0" -> 0 [] c = "1" -> 1 [] c = "2" -> 2 [] c = "3" -> 3
    [] c = "4" -> 4 [] c = "5" -> 5 [] c = "6" -> 6 [] c = "7" -> 7
    [] c = "8" -> 8 [] c = "9" -> 9

\* decimal value of a sequence of digit characters
RECURSIVE NumOf(_)
NumOf(cs) ==
  IF cs = << >> THEN 0
  ELSE 10 * NumOf(SubSeq(cs, 1, Len(cs) - 1)) + DigitVal(cs[Len(cs)])

IsLeap(y) == (y % 4 = 0 /\ y % 100 # 0) \/ y % 400 = 0

DaysInMonth(y, m) ==
  IF m = 2 THEN (IF IsLeap(y) THEN 29 ELSE 28)
  ELSE IF m \in {4, 6, 9, 11} THEN 30 ELSE 31

\* days from 1970-01-01 to the first day of year y
DayFromYear(y) ==
  365 * (y - 1970) + ((y - 1969) \div 4) - ((y - 1901) \div 100)
    + ((y - 1601) \div 400)

RECURSIVE DaysBeforeMonth(_, _)
DaysBeforeMonth(y, m) ==
  IF m = 1 THEN 0 ELSE DaysBeforeMonth(y, m - 1) + DaysInMonth(y, m - 1)

\* new Date(s).getTime() for the date-only forms YYYY, YYYY-MM and
\* YYYY-MM-DD of the ECMAScript date-time string format, in days (these
\* forms are read as UTC midnight); Null stands for NaN, the time value of
\* an Invalid Date.  Strings of any other shape are rejected: the
\* enumerated ones ("" and "n/a") are rejected by every engine.
DateTimeValue(s) ==
  LET n == Len(s)
      shaped == /\ n \in {4, 7, 10}
                /\ \A i \in 1..n :
                     IF i \in {5, 8} THEN s[i] = "-" ELSE s[i] \in Digits
  IN IF ~shaped THEN Null
     ELSE LET y == NumOf(SubSeq(s, 1, 4))
              m == IF n >= 7 THEN NumOf(SubSeq(s, 6, 7)) ELSE 1
              dd == IF n = 10 THEN NumOf(SubSeq(s, 9, 10)) ELSE 1
          IN IF m \in 1..12 /\ dd \in 1..DaysInMonth(y, m)
             THEN <<DayFromYear(y) + DaysBeforeMonth(y, m) + dd - 1>>
             ELSE Null

\* parseDate: the Date, or null when its time value is NaN
parseDate(s) == DateTimeValue(s)

\* ------------------------------------------------------- date-range filter
\* clipLoop with the end bound excluded (di < e)
RECURSIVE clipLoop_openEnd(_, _, _, _)
clipLoop_openEnd(d, s, e, i) ==
  IF i > Len(d.dates) THEN [dates |-> << >>, ret |-> << >>]
  ELSE LET di == parseDate(d.dates[i])
           rest == clipLoop_openEnd(d, s, e, i + 1)
       IN IF di = Null THEN rest
          ELSE IF di[1] >= s[1] /\ di[1] < e[1]
               THEN [dates |-> <<d.dates[i]>> \o rest.dates,
                     ret |-> <<d.ret[i]>> \o rest.ret]
               ELSE rest

\* the loop of clipByRange from index i on: the kept dates and returns
RECURSIVE clipLoop(_, _, _, _)
clipLoop(d, s, e, i) ==
  IF i > Len(d.dates) THEN [dates |-> << >>, ret |-> << >>]
  ELSE LET di == parseDate(d.dates[i])
           rest == clipLoop(d, s, e, i + 1)
       IN IF di = Null THEN rest
          ELSE IF di[1] >= s[1] /\ di[1] <= e[1]
               THEN [dates |-> <<d.dates[i]>> \o rest.dates,
                     ret |-> <<d.ret[i]>> \o rest.ret]
               ELSE rest

\* clipByRange answering a malformed bound with an empty series
clipByRange_emptyOnBadBound(d, start, end) ==
  LET s == parseDate(start)
      e == parseDate(end)
  IN IF s = Null \/ e = Null
     THEN [d EXCEPT !.dates = << >>, !.ret = << >>]
     ELSE LET out == clipLoop(d, s, e, 1)
          IN [d EXCEPT !.dates = out.dates, !.ret = out.ret]

\* clipByRange whose loop starts at the second observation
clipByRange_fromSecond(d, start, end) ==
  LET s == parseDate(start)
      e == parseDate(end)
  IN IF s = Null \/ e = Null THEN d
     ELSE LET out == clipLoop(d, s, e, 2)
          IN [d EXCEPT !.dates = out.dates, !.ret = out.ret]

clipByRange(d, start, end) ==
  LET s == parseDate(start)
      e == parseDate(end)
  IN IF s = Null \/ e = Null THEN d
     ELSE LET out == clipLoop(d, s, e, 1)
          IN [d EXCEPT !.dates = out.dates, !.ret = out.ret]

\* -------------------------------------------------------- cumulative curve
RECURSIVE toCumFrom(_, _, _)
toCumFrom(retArr, i, v) ==
  IF i > Len(retArr) THEN << >>
  ELSE LET nv == FMul(v, FAdd(One, retArr[i]))
       IN <<nv>> \o toCumFrom(retArr, i + 1, nv)

\* toCum without compounding: retArr.map((r) => 1 + r)
toCum_noCompounding(retArr) ==
  [i \in 1..Len(retArr) |-> FAdd(One, retArr[i])]

toCum(retArr) == toCumFrom(retArr, 1, One)

\* --------------------------------------------------------- maximum drawdown
\* maxDrawdownLoop tracking the drawdown as a positive magnitude
RECURSIVE maxDrawdownLoop_magnitude(_, _, _, _, _)
maxDrawdownLoop_magnitude(ret, i, peak, nav, maxdd) ==
  IF i > Len(ret) THEN maxdd
  ELSE LET nav2 == FMul(nav, FAdd(One, ret[i]))
           peak2 == IF FLess(peak, nav2) THEN nav2 ELSE peak
           dd == FSub(One, FDiv(nav2, peak2))
           maxdd2 == IF FLess(maxdd, dd) THEN dd ELSE maxdd
       IN maxDrawdownLoop_magnitude(ret, i + 1, peak2, nav2, maxdd2)

RECURSIVE maxDrawdownLoop(_, _, _, _, _)
maxDrawdownLoop(ret, i, peak, nav, maxdd) ==
  IF i > Len(ret) THEN maxdd
  ELSE LET nav2 == FMul(nav, FAdd(One, ret[i]))
           peak2 == IF FLess(peak, nav2) THEN nav2 ELSE peak
           dd == FSub(FDiv(nav2, peak2), One)
           maxdd2 == IF FLess(dd, maxdd) THEN dd ELSE maxdd
       IN maxDrawdownLoop(ret, i + 1, peak2, nav2, maxdd2)

\* maxDrawdownFromReturns with the running peak started at 0
maxDrawdownFromReturns_peakZero(ret) ==
  maxDrawdownLoop(ret, 1, Zero, One, Zero)

maxDrawdownFromReturns(ret) == maxDrawdownLoop(ret, 1, One, One, Zero)

\* ------------------------------------------------------ risk/return metrics
\* ret.reduce((a, b) => a + b, 0), left to right
RECURSIVE SumOf(_, _)
SumOf(xs, i) ==
  IF i = 0 THEN Zero ELSE FAdd(SumOf(xs, i - 1), xs[i])

\* ret.reduce((a, r) => a + (r - mean) ** 2, 0), left to right
RECURSIVE SumSqDev(_, _, _)
SumSqDev(xs, mean, i) ==
  IF i = 0 THEN Zero
  ELSE LET dev == FSub(xs[i], mean)
       IN FAdd(SumSqDev(xs, mean, i - 1), FMul(dev, dev))

MeanOf(xs) == FDiv(SumOf(xs, Len(xs)), FInt(Len(xs)))

\* sample variance, divisor Math.max(1, n - 1)
SampleVar(xs) ==
  LET n == Len(xs)
  IN FDiv(SumSqDev(xs, MeanOf(xs), n), FInt(IF n - 1 > 1 THEN n - 1 ELSE 1))

AnnVol(xs, freq) == FSqrt(FMul(SampleVar(xs), freq))

\* the terminal NAV: for (const r of ret) nav *= 1 + r
RECURSIVE NavOf(_, _)
NavOf(ret, i) ==
  IF i = 0 THEN One ELSE FMul(NavOf(ret, i - 1), FAdd(One, ret[i]))

\* Math.pow(nav, y) - 1.  Math.pow is not computed: for nav = 1 the power
\* is 1 exactly and the result is 0; otherwise the result is kept as the
\* term <<nav mantissa, nav exponent, y mantissa, y exponent>>.
PowMinusOne(nav, y) ==
  IF nav = One THEN Zero ELSE nav \o y

\* the excess returns: ret.map((r) => r - rfDaily)
ExcessOf(ret, rfAnnual, freq) ==
  LET rfDaily == FDiv(rfAnnual, freq)
  IN [i \in 1..Len(ret) |-> FSub(ret[i], rfDaily)]

ExMean(ret, rfAnnual, freq) == MeanOf(ExcessOf(ret, rfAnnual, freq))

ExVol(ret, rfAnnual, freq) == AnnVol(ExcessOf(ret, rfAnnual, freq), freq)

\* the Sharpe ratio without the zero-volatility guard
SharpeOf_noGuard(exMean, exVol, freq) == FDiv(FMul(exMean, freq), exVol)

SharpeOf(exMean, exVol, freq) ==
  IF exVol = Zero THEN Null ELSE FDiv(FMul(exMean, freq), exVol)

\* the empty-series row with Sharpe 0 instead of null
EmptyRow_sharpeZero(factor) ==
  [factor |-> factor, ann_return |-> Zero, ann_vol |-> Zero,
   sharpe |-> Zero, maxdd |-> Zero]

EmptyRow(factor) ==
  [factor |-> factor, ann_return |-> Zero, ann_vol |-> Zero,
   sharpe |-> Null, maxdd |-> Zero]

calcMetricsFromDailyRet(factor, ret, rfAnnual, freq) ==
  IF Len(ret) = 0 THEN EmptyRow(factor)
  ELSE [factor |-> factor,
        ann_return |-> PowMinusOne(NavOf(ret, Len(ret)),
                                   FDiv(freq, FInt(Len(ret)))),
        ann_vol |-> AnnVol(ret, freq),
        sharpe |-> SharpeOf(ExMean(ret, rfAnnual, freq),
                            ExVol(ret, rfAnnual, freq), freq),
        maxdd |-> maxDrawdownFromReturns(ret)]

\* the factor detail page's calculator (no risk-free rate, no label)
calcMetrics(ret, freq) ==
  IF Len(ret) = 0
  THEN [ann_return |-> Zero, ann_vol |-> Zero, sharpe |-> Zero,
        maxdd |-> Zero]
  ELSE LET ann_vol == AnnVol(ret, freq)
       IN [ann_return |-> PowMinusOne(NavOf(ret, Len(ret)),
                                      FDiv(freq, FInt(Len(ret)))),
           ann_vol |-> ann_vol,
           sharpe |-> IF ann_vol = Zero THEN Zero
                      ELSE FDiv(FMul(MeanOf(ret), freq), ann_vol),
           maxdd |-> maxDrawdownFromReturns(ret)]

\* ------------------------------------------------------ string comparison
\* UTF-16 code units of the characters that occur in the modelled strings
CharCode(c) ==
  CASE c = "-" -> 45
    [] c = "/" -> 47
    [] c \in Digits -> 48 + DigitVal(c)
    [] c = "a" -> 97
    [] c = "n" -> 110
    [] OTHER -> 0

\* a < b as the language compares two strings: code unit by code unit, a
\* proper prefix being the smaller
RECURSIVE StrLessFrom(_, _, _)
StrLessFrom(a, b, i) ==
  IF i > Len(a) THEN i <= Len(b)
  ELSE IF i > Len(b) THEN FALSE
  ELSE IF a[i] = b[i] THEN StrLessFrom(a, b, i + 1)
  ELSE CharCode(a[i]) < CharCode(b[i])

StrGeq(a, b) == ~StrLessFrom(a, b, 1)

\* ------------------------------------------------------- event alignment
\* the two values a missing array element or a failed conversion yields;
\* no float has mantissa 0 and a non-zero exponent
NaN == <<0, 2>>
Undefined == <<0, 3>>

PeakColor == "rgba(244,63,94,0.3)"
TroughColor == "rgba(16,185,129,0.3)"

\* x.findIndex((d) => d >= date): the first index from i on, 0 for the -1
\* of the source (sequences are 1-based here)
RECURSIVE findIndexFrom(_, _, _)
findIndexFrom(x, date, i) ==
  IF i > Len(x) THEN 0
  ELSE IF StrGeq(x[i], date) THEN i
  ELSE findIndexFrom(x, date, i + 1)

findIndex(x, date) == findIndexFrom(x, date, 1)

\* the events of one artifact that enter the pool: a non-empty date and a
\* kind of "trough" or "peak"
RECURSIVE poolFrom(_, _)
poolFrom(events, k) ==
  IF k > Len(events) THEN << >>
  ELSE LET e == events[k] IN
       IF e.date # << >> /\ (e.type = "trough" \/ e.type = "peak")
       THEN <<[type |-> e.type, date |-> e.date]>> \o poolFrom(events, k + 1)
       ELSE poolFrom(events, k + 1)

\* a pool gathered from every loaded artifact
eventPool_allArtifacts(gwData) ==
  IF gwData = << >> THEN << >>
  ELSE LET a == gwData[1]
           rest == IF Len(gwData) > 1 /\ gwData[2].hasEvents
                   THEN poolFrom(gwData[2].events, 1) ELSE << >>
       IN (IF a.hasEvents /\ Len(a.events) > 0 THEN poolFrom(a.events, 1)
           ELSE << >>) \o rest

\* gwData is the sequence of its entries in key order; the pool is taken
\* from the first key only
eventPool(gwData) ==
  IF gwData = << >> THEN << >>
  ELSE LET a == gwData[1] IN
       IF a.hasEvents /\ Len(a.events) > 0 THEN poolFrom(a.events, 1)
       ELSE << >>

ElemAt(arr, i) == IF i \in 1..Len(arr) THEN arr[i] ELSE Undefined

NoMarkers == [peaksX |-> << >>, peaksY |-> << >>,
              troughX |-> << >>, troughY |-> << >>]

RECURSIVE markersLoop_kindsSwapped(_, _, _, _, _)
markersLoop_kindsSwapped(pool, x, y, k, acc) ==
  IF k > Len(pool) THEN acc
  ELSE LET e == pool[k]
           idx == findIndex(x, e.date)
       IN IF idx = 0 THEN markersLoop_kindsSwapped(pool, x, y, k + 1, acc)
          ELSE IF e.type = "trough"
          THEN markersLoop_kindsSwapped(pool, x, y, k + 1,
                 [acc EXCEPT !.peaksX = Append(@, x[idx]),
                             !.peaksY = Append(@, ElemAt(y, idx))])
          ELSE markersLoop_kindsSwapped(pool, x, y, k + 1,
                 [acc EXCEPT !.troughX = Append(@, x[idx]),
                             !.troughY = Append(@, ElemAt(y, idx))])

RECURSIVE markersLoop(_, _, _, _, _)
markersLoop(pool, x, y, k, acc) ==
  IF k > Len(pool) THEN acc
  ELSE LET e == pool[k]
           idx == findIndex(x, e.date)
       IN IF idx = 0 THEN markersLoop(pool, x, y, k + 1, acc)
          ELSE IF e.type = "peak"
          THEN markersLoop(pool, x, y, k + 1,
                 [acc EXCEPT !.peaksX = Append(@, x[idx]),
                             !.peaksY = Append(@, ElemAt(y, idx))])
          ELSE markersLoop(pool, x, y, k + 1,
                 [acc EXCEPT !.troughX = Append(@, x[idx]),
                             !.troughY = Append(@, ElemAt(y, idx))])

shapeOf_aligned(e, x) ==
  LET idx == findIndex(x, e.date)
      at == IF idx = 0 THEN e.date ELSE x[idx]
  IN [x0 |-> at, x1 |-> at,
      color |-> IF e.type = "peak" THEN PeakColor ELSE TroughColor]

\* one dotted vertical line per pooled event
shapeOf(e, x) ==
  [x0 |-> e.date, x1 |-> e.date,
   color |-> IF e.type = "peak" THEN PeakColor ELSE TroughColor]

shapesOf(pool, x) == [k \in 1..Len(pool) |-> shapeOf(pool[k], x)]

\* the memoised chart input: Null, or the benchmark line, the two marker
\* series and the reference lines
gwSignalTraces(benchSeries, gwData, gwBenchmark) ==
  IF benchSeries = Null THEN Null
  ELSE IF Len(benchSeries[1].dates) = 0 \/ Len(benchSeries[1].ret) = 0
  THEN Null
  ELSE LET x == benchSeries[1].dates
           y == toCum(benchSeries[1].ret)
           pool == eventPool(gwData)
           m == markersLoop(pool, x, y, 1, NoMarkers)
       IN <<[name |-> gwBenchmark, x |-> x, y |-> y,
             peaksX |-> m.peaksX, peaksY |-> m.peaksY,
             troughX |-> m.troughX, troughY |-> m.troughY,
             shapes |-> shapesOf(pool, x)]>>

\* --------------------------------------------------------- rank heatmap
\* the label -> colour table; "" stands for the undefined of a missing key
FACTOR_COLORS(f) ==
  CASE f = "High_yield" -> "#ff7f0e"
    [] f = "PB_low" -> "#c49c94"
    [] f = "PE_low" -> "#7f7f7f"
    [] f = "Momentum_01" -> "#bcbd22"
    [] f = "Momentum_03" -> "#8c564b"
    [] f = "Momentum_06" -> "#f1c40f"
    [] f = "High_yoy" -> "#4e79a7"
    [] f = "Margin_growth" -> "#2ca02c"
    [] f = "EPS_growth" -> "#76b7b2"
    [] f = "Low_beta" -> "#e377c2"
    [] f = "Top300" -> "#3b82f6"
    [] OTHER -> ""

DefaultColor == "#e2e8f0"

\* the stops of the colours from the i-th on (i counts from 0, as in the
\* source); a stop is [pos, color]
RECURSIVE colorStops_bandStartOnly(_, _)
colorStops_bandStartOnly(colorList, i) ==
  LET n == Len(colorList) IN
  IF i >= n THEN << >>
  ELSE LET a == FDiv(FInt(i), FInt(n))
       IN <<[pos |-> a, color |-> colorList[i + 1]],
            [pos |-> a, color |-> colorList[i + 1]]>>
          \o colorStops_bandStartOnly(colorList, i + 1)

RECURSIVE colorStops(_, _)
colorStops(colorList, i) ==
  LET n == Len(colorList) IN
  IF i >= n THEN << >>
  ELSE LET a == FDiv(FInt(i), FInt(n))
           b == FDiv(FInt(i + 1), FInt(n))
       IN <<[pos |-> a, color |-> colorList[i + 1]],
            [pos |-> b, color |-> colorList[i + 1]]>>
          \o colorStops(colorList, i + 1)

makeDiscreteColorscale(colorList) == colorStops(colorList, 0)

\* rankedFactors.flat()
RECURSIVE flat(_)
flat(rows) == IF rows = << >> THEN << >> ELSE Head(rows) \o flat(Tail(rows))

\* Array.from(new Set(xs)): the distinct elements in order of first
\* occurrence
RECURSIVE distinctFrom(_, _, _)
distinctFrom(xs, i, acc) ==
  IF i > Len(xs) THEN acc
  ELSE IF \E j \in 1..Len(acc) : acc[j] = xs[i]
  THEN distinctFrom(xs, i + 1, acc)
  ELSE distinctFrom(xs, i + 1, Append(acc, xs[i]))

\* factorToCode[fname] ?? -1, where forEach has stored each label's
\* position (counted from 0), a later position overwriting an earlier one.
\* (The enumerated labels are none of the names an empty object inherits.)
RECURSIVE codeFrom_firstIsOne(_, _, _, _)
codeFrom_firstIsOne(factorList, fname, i, code) ==
  IF i > Len(factorList) THEN code
  ELSE codeFrom_firstIsOne(factorList, fname, i + 1,
                           IF factorList[i] = fname THEN i ELSE code)

RECURSIVE codeFrom(_, _, _, _)
codeFrom(factorList, fname, i, code) ==
  IF i > Len(factorList) THEN code
  ELSE codeFrom(factorList, fname, i + 1,
                IF factorList[i] = fname THEN i - 1 ELSE code)

\* the decimal digits of a natural number
RECURSIVE IntChars(_)
IntChars(n) ==
  LET d == <<"0", "1", "2", "3", "4", "5", "6", "7", "8", "9">>[(n % 10) + 1]
  IN IF n < 10 THEN <<d>> ELSE Append(IntChars(n \div 10), d)

\* r * 100 for a value that may be NaN
TimesHundred(r) == IF r = NaN THEN NaN ELSE FMul(r, FInt(100))

\* Number.prototype.toFixed(1): the integer n nearest to |x| * 10, the
\* larger one on a tie, written with one decimal; "NaN" for NaN
toFixed1(x) ==
  IF x = NaN THEN <<"N", "a", "N">>
  ELSE LET a == Abs(x[1])
           d == Pow2(-x[2])
           n == IF x[2] >= 0 THEN a * Pow2(x[2]) * 10
                ELSE (20 * a + d) \div (2 * d)
       IN (IF x[1] < 0 THEN <<"-">> ELSE << >>)
          \o IntChars(n \div 10) \o <<".">> \o IntChars(n % 10)

NA == <<"N", "A">>

\* the percentage part of a cell's text
pctText(r) ==
  IF r = Null \/ r = Undefined THEN NA
  ELSE toFixed1(TimesHundred(r)) \o <<"%">>

\* a label that repeats a short list's last entry in the rows past its end
cellLabel_lastRepeated(rankedFactors, col, row) ==
  IF col <= Len(rankedFactors) /\ Len(rankedFactors[col]) > 0
  THEN rankedFactors[col][IF row <= Len(rankedFactors[col]) THEN row
                          ELSE Len(rankedFactors[col])]
  ELSE ""

\* rankedFactors[col]?.[row] ?? ""  (col and row count from 1 here)
cellLabel(rankedFactors, col, row) ==
  IF col <= Len(rankedFactors) /\ row <= Len(rankedFactors[col])
  THEN rankedFactors[col][row] ELSE ""

\* rankedReturns?.[col]?.[row]
cellValue(hasRankedReturns, rankedReturns, col, row) ==
  IF hasRankedReturns /\ col <= Len(rankedReturns)
     /\ row <= Len(rankedReturns[col])
  THEN rankedReturns[col][row] ELSE Undefined

NotRendered ==
  [rendered |-> FALSE, error |-> FALSE, N |-> 0, factorList |-> << >>,
   colorscale |-> << >>, z |-> << >>, text |-> << >>, yArr |-> << >>]

Thrown == [NotRendered EXCEPT !.error = TRUE]

\* the heatmap block of the page.  heatmap is Null or <<artifact>>; an
\* artifact field that is absent has its has... flag FALSE.  With neither
\* factors nor ranked_factors, rankedFactors.flat() is a call on undefined
\* and throws.  A cell's text is the pair of its label and its percentage
\* part (the markup around them is fixed).
encodeHeatmap(heatmap) ==
  IF heatmap = Null THEN NotRendered
  ELSE IF ~heatmap[1].hasMonths THEN NotRendered
  ELSE IF ~heatmap[1].hasFactors /\ ~heatmap[1].hasRankedFactors THEN Thrown
  ELSE LET h == heatmap[1]
           months == h.months
           rankedFactors == IF h.hasRankedFactors THEN h.ranked_factors
                            ELSE << >>
           N == IF Len(rankedFactors) > 0 THEN Len(rankedFactors[1]) ELSE 0
           factorList == IF h.hasFactors THEN h.factors
                         ELSE distinctFrom(flat(rankedFactors), 1, << >>)
           colors == [i \in 1..Len(factorList) |->
                        IF FACTOR_COLORS(factorList[i]) # ""
                        THEN FACTOR_COLORS(factorList[i]) ELSE DefaultColor]
       IN [rendered |-> TRUE, error |-> FALSE, N |-> N,
           factorList |-> factorList,
           colorscale |-> makeDiscreteColorscale(colors),
           z |-> [row \in 1..N |-> [col \in 1..Len(months) |->
                    codeFrom(factorList,
                             cellLabel(rankedFactors, col, row), 1, -1)]],
           text |-> [row \in 1..N |-> [col \in 1..Len(months) |->
                    [label |-> cellLabel(rankedFactors, col, row),
                     pct |-> pctText(cellValue(h.hasRankedReturns,
                                       h.ranked_returns, col, row))]]],
           yArr |-> [i \in 1..N |-> i]]

\* ------------------------------------------------------- factor detail page
\* a string prop or hook value is << >> when absent (undefined, null) and
\* <<chars>> when it is a string
Chars(v) == v[1]

UndefinedLiteral == <<"u", "n", "d", "e", "f", "i", "n", "e", "d">>

\* name.trim().length > 0
NonBlank(s) == \E i \in 1..Len(s) : s[i] # " "

\* the value of a hexadecimal digit, -1 for any other character
HexVal(c) ==
  CASE c \in Digits -> DigitVal(c)
    [] c = "A" -> 10
    [] c = "B" -> 11
    [] c = "C" -> 12
    [] c = "D" -> 13
    [] c = "E" -> 14
    [] c = "F" -> 15
    [] OTHER -> -1

\* the character of a code unit, for the escapes of the modelled paths
CharOfCode(n) ==
  CASE n = 32 -> " "
    [] n = 37 -> "%"
    [] n = 47 -> "/"
    [] n = 95 -> "_"
    [] OTHER -> "?"

\* decodeURIComponent on a string whose escapes are well formed: every %XX
\* becomes the character XX names, every other character stays
RECURSIVE decodeFrom(_, _)
decodeFrom(s, i) ==
  IF i > Len(s) THEN << >>
  ELSE IF s[i] = "%" /\ i + 2 <= Len(s)
  THEN <<CharOfCode(16 * HexVal(s[i + 1]) + HexVal(s[i + 2]))>>
       \o decodeFrom(s, i + 3)
  ELSE <<s[i]>> \o decodeFrom(s, i + 1)

decodeURIComponent(s) == decodeFrom(s, 1)

\* pathname.split("/").filter(Boolean): the non-empty pieces between the
\* slashes; cur is the piece being read
RECURSIVE segmentsFrom(_, _, _)
segmentsFrom(path, i, cur) ==
  IF i > Len(path) THEN (IF cur = << >> THEN << >> ELSE <<cur>>)
  ELSE IF path[i] = "/"
  THEN (IF cur = << >> THEN << >> ELSE <<cur>>)
       \o segmentsFrom(path, i + 1, << >>)
  ELSE segmentsFrom(path, i + 1, Append(cur, path[i]))

\* the name the page works with
safeName_propOnly(name, pathname) ==
  IF name # << >> /\ Chars(name) # << >> /\ Chars(name) # UndefinedLiteral
     /\ NonBlank(Chars(name))
  THEN Chars(name)
  ELSE << >>

safeName(name, pathname) ==
  IF name # << >> /\ Chars(name) # << >> /\ Chars(name) # UndefinedLiteral
     /\ NonBlank(Chars(name))
  THEN Chars(name)
  ELSE IF pathname = << >> THEN << >>
  ELSE IF Chars(pathname) = << >> THEN << >>
  ELSE LET segments == segmentsFrom(Chars(pathname), 1, << >>)
       IN IF segments = << >> THEN << >>
          ELSE decodeURIComponent(segments[Len(segments)])

\* ------------------------------------------------------------------- state
VARIABLES
  cd,           \* the ReturnsResp handed to the date-range filter
  cstart,       \* the start bound (a date string)
  cend,         \* the end bound (a date string)
  clipped,      \* clipByRange(cd, cstart, cend)
  reclipped,    \* clipByRange(clipped, cstart, cend)
  cpc,          \* "input", "clipped" or "reclipped"
  mfactor,      \* the label handed to the metrics calculator
  mret,         \* the return series handed to the numeric functions
  mrf,          \* the annual risk-free rate
  mfreq,        \* the periods-per-year constant
  cum,          \* toCum(mret)
  mdd,          \* maxDrawdownFromReturns(mret)
  row,          \* calcMetricsFromDailyRet(mfactor, mret, mrf, mfreq)
  detailRow,    \* calcMetrics(mret, mfreq)
  mpc,          \* the last numeric function that has returned
  benchSeries,  \* Null or <<series>>: the benchmark's full history
  gwData,       \* the loaded event artifacts, in key order
  gwBenchmark,  \* the benchmark's name
  signal,       \* gwSignalTraces(benchSeries, gwData, gwBenchmark)
  spc,          \* "input" or "gwSignalTraces"
  heatmap,      \* Null or <<artifact>>: the loaded ranking artifact
  heat,         \* encodeHeatmap(heatmap)
  hpc,          \* "input" or "encoded"
  factors,      \* the manifest's factor names, << >> until loaded
  manifest,     \* "pending", "loaded" or "failed"
  selected,     \* the factors whose curves and rows are shown, in order
  start,        \* the start of the date range (a date string)
  end,          \* the end of the date range (a date string)
  rf,           \* the annual risk-free rate
  series,       \* the stored series: [key, value] entries in key order
  metrics,      \* the rows of the metrics table
  gwSelected,   \* the factors compared in the event section
  loads,        \* the returns loads in flight, each with its inputs
  applied,      \* <<inputs>> of the load that stored its result last
  changes,      \* how many times the user has changed an input
  variant,      \* which copy of the detail page runs
  name,         \* the name prop: << >> or <<chars>>
  pathname,     \* usePathname(): << >> or <<chars>>
  meta,         \* Null or <<artifact>>
  ret,          \* Null or <<artifact>>
  hold,         \* Null or <<artifact>>
  stockNames,   \* the ticker names, << >> for {}
  month,        \* the month whose holdings are listed
  dloads,       \* the detail loads in flight, each with its safeName
  answers,      \* which fetches of the last completed load answered
  visits        \* how many times the props have changed

clipVars == <<cd, cstart, cend, clipped, reclipped, cpc>>
metricVars == <<mfactor, mret, mrf, mfreq, cum, mdd, row, detailRow, mpc>>
signalVars == <<benchSeries, gwData, gwBenchmark, signal, spc>>
heatVars == <<heatmap, heat, hpc>>
dashVars == <<factors, manifest, selected, start, end, rf, series, metrics,
              gwSelected, loads, applied, changes>>
detailVars == <<variant, name, pathname, meta, ret, hold, stockNames, month,
                dloads, answers, visits>>
nonClipVars == <<metricVars, signalVars, heatVars, dashVars, detailVars>>
nonMetricVars == <<clipVars, signalVars, heatVars, dashVars, detailVars>>
nonSignalVars == <<clipVars, metricVars, heatVars, dashVars, detailVars>>
nonHeatVars == <<clipVars, metricVars, signalVars, dashVars, detailVars>>
\* gwBenchmark is an input of the event chart and part of the page's state
nonDashVars == <<clipVars, metricVars, heatVars, detailVars,
                 benchSeries, gwData, signal, spc>>
nonDetailVars == <<clipVars, metricVars, signalVars, heatVars, dashVars>>
vars == <<cd, cstart, cend, clipped, reclipped, cpc,
          mfactor, mret, mrf, mfreq, cum, mdd, row, detailRow, mpc,
          benchSeries, gwData, gwBenchmark, signal, spc,
          heatmap, heat, hpc,
          factors, manifest, selected, start, end, rf, series, metrics,
          gwSelected, loads, applied, changes,
          variant, name, pathname, meta, ret, hold, stockNames, month,
          dloads, answers, visits>>

\* ------------------------------------------------------------------ inputs
S_0313 == <<"2", "0", "2", "0", "-", "0", "3", "-", "1", "3">>
S_0315 == <<"2", "0", "2", "0", "-", "0", "3", "-", "1", "5">>
S_0316 == <<"2", "0", "2", "0", "-", "0", "3", "-", "1", "6">>
\* 2020-04 is the same instant as 2020-04-01
S_04 == <<"2", "0", "2", "0", "-", "0", "4">>
\* month 13: an Invalid Date
S_1301 == <<"2", "0", "2", "0", "-", "1", "3", "-", "0", "1">>
S_na == <<"n", "/", "a">>

DateStrings == {S_0313, S_0315, S_0316, S_04, S_1301, S_na}

Factors == {"Top300", "PE_low"}

\* -2, -1, -1/2, 0, 3/8, 1
Returns == {<<-1, 1>>, <<-1, 0>>, <<-1, -1>>, Zero, <<3, -3>>, One}

\* 0 and 3/64
RfRates == {Zero, <<3, -6>>}

\* 252 and 12
Freqs == {<<63, 2>>, <<3, 2>>}

SeqsUpTo(S, n) == UNION {[1..k -> S] : k \in 0..n}

\* the return paired with the i-th date of a filter input: 2^-i
RetAt(i) == <<1, -i>>

EmptySeries == [factor |-> "", dates |-> << >>, ret |-> << >>]

ClipIdle ==
  /\ cd = EmptySeries
  /\ cstart = << >>
  /\ cend = << >>
  /\ clipped = EmptySeries
  /\ reclipped = EmptySeries
  /\ cpc = "idle"

MetricsIdle ==
  /\ mfactor = ""
  /\ mret = << >>
  /\ mrf = Zero
  /\ mfreq = One
  /\ cum = << >>
  /\ mdd = Zero
  /\ row = EmptyRow("")
  /\ detailRow = [ann_return |-> Zero, ann_vol |-> Zero, sharpe |-> Zero,
                  maxdd |-> Zero]
  /\ mpc = "idle"

SignalIdle ==
  /\ benchSeries = Null
  /\ gwData = << >>
  /\ gwBenchmark = ""
  /\ signal = Null
  /\ spc = "idle"

HeatIdle ==
  /\ heatmap = Null
  /\ heat = NotRendered
  /\ hpc = "idle"

DashIdle ==
  /\ factors = << >>
  /\ manifest = "idle"
  /\ selected = << >>
  /\ start = << >>
  /\ end = << >>
  /\ rf = Zero
  /\ series = << >>
  /\ metrics = << >>
  /\ gwSelected = << >>
  /\ loads = {}
  /\ applied = << >>
  /\ changes = 0

DetailIdle ==
  /\ variant = "idle"
  /\ name = << >>
  /\ pathname = << >>
  /\ meta = Null
  /\ ret = Null
  /\ hold = Null
  /\ stockNames = << >>
  /\ month = ""
  /\ dloads = {}
  /\ answers = << >>
  /\ visits = 0

NonClipIdle == MetricsIdle /\ SignalIdle /\ HeatIdle /\ DashIdle /\ DetailIdle
NonMetricsIdle == ClipIdle /\ SignalIdle /\ HeatIdle /\ DashIdle /\ DetailIdle
NonSignalIdle == ClipIdle /\ MetricsIdle /\ HeatIdle /\ DashIdle /\ DetailIdle
NonHeatIdle == ClipIdle /\ MetricsIdle /\ SignalIdle /\ DashIdle /\ DetailIdle
NonDetailIdle ==
  ClipIdle /\ MetricsIdle /\ SignalIdle /\ HeatIdle /\ DashIdle
NonDashIdle ==
  /\ ClipIdle /\ MetricsIdle /\ HeatIdle /\ DetailIdle
  /\ benchSeries = Null
  /\ gwData = << >>
  /\ signal = Null
  /\ spc = "idle"

\* -------------------------------------------------- date-range filter runs
InitClip ==
  /\ \E f \in Factors, ds \in SeqsUpTo(DateStrings, MaxLen) :
       cd = [factor |-> f, dates |-> ds,
             ret |-> [i \in 1..Len(ds) |-> RetAt(i)]]
  /\ cstart \in DateStrings
  /\ cend \in DateStrings
  /\ clipped = EmptySeries
  /\ reclipped = EmptySeries
  /\ cpc = "input"
  /\ NonClipIdle

ClipByRange ==
  /\ cpc = "input"
  /\ clipped' = clipByRange(cd, cstart, cend)
  /\ cpc' = "clipped"
  /\ UNCHANGED <<cd, cstart, cend, reclipped>>
  /\ UNCHANGED nonClipVars

ClipAgain ==
  /\ cpc = "clipped"
  /\ reclipped' = clipByRange(clipped, cstart, cend)
  /\ cpc' = "reclipped"
  /\ UNCHANGED <<cd, cstart, cend, clipped>>
  /\ UNCHANGED nonClipVars

NextClip == ClipByRange \/ ClipAgain

SpecClip == InitClip /\ [][NextClip]_vars

\* -------------------------------------------------- numeric function runs
InitMetrics ==
  /\ mfactor \in Factors
  /\ mret \in SeqsUpTo(Returns, MaxLen)
  /\ mrf \in RfRates
  /\ mfreq \in Freqs
  /\ cum = << >>
  /\ mdd = Zero
  /\ row = EmptyRow("")
  /\ detailRow = [ann_return |-> Zero, ann_vol |-> Zero, sharpe |-> Zero,
                  maxdd |-> Zero]
  /\ mpc = "input"
  /\ NonMetricsIdle

ToCum_inPlace ==
  /\ mpc = "input"
  /\ cum' = toCum(mret)
  /\ mret' = toCum(mret)
  /\ mpc' = "toCum"
  /\ UNCHANGED <<mfactor, mrf, mfreq, mdd, row, detailRow>>
  /\ UNCHANGED nonMetricVars

ToCum ==
  /\ mpc = "input"
  /\ cum' = toCum(mret)
  /\ mpc' = "toCum"
  /\ UNCHANGED <<mfactor, mret, mrf, mfreq, mdd, row, detailRow>>
  /\ UNCHANGED nonMetricVars

MaxDrawdownFromReturns ==
  /\ mpc = "toCum"
  /\ mdd' = maxDrawdownFromReturns(mret)
  /\ mpc' = "maxDrawdownFromReturns"
  /\ UNCHANGED <<mfactor, mret, mrf, mfreq, cum, row, detailRow>>
  /\ UNCHANGED nonMetricVars

CalcMetricsFromDailyRet ==
  /\ mpc = "maxDrawdownFromReturns"
  /\ row' = calcMetricsFromDailyRet(mfactor, mret, mrf, mfreq)
  /\ mpc' = "calcMetricsFromDailyRet"
  /\ UNCHANGED <<mfactor, mret, mrf, mfreq, cum, mdd, detailRow>>
  /\ UNCHANGED nonMetricVars

CalcMetrics ==
  /\ mpc = "calcMetricsFromDailyRet"
  /\ detailRow' = calcMetrics(mret, mfreq)
  /\ mpc' = "calcMetrics"
  /\ UNCHANGED <<mfactor, mret, mrf, mfreq, cum, mdd, row>>
  /\ UNCHANGED nonMetricVars

NextMetrics ==
  \/ ToCum
  \/ MaxDrawdownFromReturns
  \/ CalcMetricsFromDailyRet
  \/ CalcMetrics

SpecMetrics == InitMetrics /\ [][NextMetrics]_vars

\* ================================================================== claims
ClipDone == cpc \in {"clipped", "reclipped"}
BoundsParse == parseDate(cstart) # Null /\ parseDate(cend) # Null

\* the indices of the observations whose date parses and lies in [start, end]
KeptIdx ==
  {i \in 1..Len(cd.dates) :
     LET t == parseDate(cd.dates[i])
     IN /\ t # Null
        /\ parseDate(cstart)[1] <= t[1]
        /\ t[1] <= parseDate(cend)[1]}

RECURSIVE Ascending(_)
Ascending(S) ==
  IF S = {} THEN << >>
  ELSE LET m == CHOOSE x \in S : \A y \in S : x <= y
       IN <<m>> \o Ascending(S \ {m})

\* C1: when both bounds parse, the filter keeps exactly the (date, return)
\* pairs whose date parses and lies in [start, end], endpoints included, in
\* their original order, and carries the other fields over unchanged.
C1_ClipKeepsExactlyInRange ==
  (ClipDone /\ BoundsParse) =>
    LET idx == Ascending(KeptIdx)
    IN /\ Len(clipped.dates) = Len(idx)
       /\ Len(clipped.ret) = Len(idx)
       /\ \A k \in 1..Len(idx) :
            /\ clipped.dates[k] = cd.dates[idx[k]]
            /\ clipped.ret[k] = cd.ret[idx[k]]
       /\ DOMAIN clipped = DOMAIN cd
       /\ clipped.factor = cd.factor

\* a filtered series that lost an unparseable date and an out-of-range one
\* and kept an observation dated exactly on the end bound
C1_Witness ==
  /\ cpc = "clipped"
  /\ BoundsParse
  /\ Len(cd.dates) = MaxLen
  /\ Len(clipped.dates) = 1
  /\ parseDate(clipped.dates[1]) = parseDate(cend)
  /\ \E i \in 1..Len(cd.dates) : parseDate(cd.dates[i]) = Null
  /\ \E i \in 1..Len(cd.dates) :
       parseDate(cd.dates[i]) # Null
         /\ parseDate(cd.dates[i])[1] > parseDate(cend)[1]

\* C2: when start or end fails to parse, the filter returns the original
\* series unchanged, observations with unparseable dates included.
C2_BadBoundIsNoOp ==
  (ClipDone /\ ~BoundsParse) => clipped = cd

\* a malformed start bound, a well-formed end bound before every date, and
\* a series holding an unparseable date: the series comes back whole
C2_Witness ==
  /\ cpc = "clipped"
  /\ parseDate(cstart) = Null
  /\ parseDate(cend) # Null
  /\ Len(cd.dates) >= 2
  /\ \E i \in 1..Len(cd.dates) : parseDate(cd.dates[i]) = Null
  /\ \E i \in 1..Len(cd.dates) :
       parseDate(cd.dates[i]) # Null
         /\ parseDate(cd.dates[i])[1] > parseDate(cend)[1]
  /\ clipped.dates = cd.dates
  /\ clipped.ret = cd.ret

\* C3: filtering the filtered series by the same bounds changes nothing.
C3_ClipIdempotent ==
  cpc = "reclipped" =>
    /\ reclipped.dates = clipped.dates
    /\ reclipped.ret = clipped.ret

\* a second pass over a series that the first pass really shortened
C3_Witness ==
  /\ cpc = "reclipped"
  /\ BoundsParse
  /\ Len(clipped.dates) >= 2
  /\ Len(clipped.dates) < Len(cd.dates)
  /\ reclipped = clipped

CumDone == mpc \in {"toCum", "maxDrawdownFromReturns",
                    "calcMetricsFromDailyRet", "calcMetrics"}
MddDone == mpc \in {"maxDrawdownFromReturns", "calcMetricsFromDailyRet",
                    "calcMetrics"}
RowDone == mpc \in {"calcMetricsFromDailyRet", "calcMetrics"}

\* the product of (1 + r_j) for j = 1..i, starting from 1
RECURSIVE PrefixProduct(_, _)
PrefixProduct(r, i) ==
  IF i = 0 THEN One ELSE FMul(PrefixProduct(r, i - 1), FAdd(One, r[i]))

\* C4: toCum returns one value per return, the i-th being the product of
\* (1 + r_j) for j = 1..i; the empty sequence yields the empty sequence.
C4_ToCumIsPrefixProduct ==
  CumDone =>
    /\ Len(cum) = Len(mret)
    /\ \A i \in 1..Len(mret) : cum[i] = PrefixProduct(mret, i)

\* a curve of full length whose values really compound
C4_Witness ==
  /\ mpc = "toCum"
  /\ Len(mret) = MaxLen
  /\ \A i \in 1..Len(mret) : mret[i] # Zero /\ FLess(Zero, cum[i])
  /\ cum[MaxLen] # FAdd(One, mret[MaxLen])

\* C5: the maximum drawdown is never positive, and is 0 for the empty
\* series, also when the series holds returns at or below -100%.
C5_MaxDrawdownNonPositive ==
  MddDone =>
    /\ FLeq(mdd, Zero)
    /\ (mret = << >> => mdd = Zero)

\* a series with a return below -100% whose drawdown went below -1
C5_Witness ==
  /\ mpc = "maxDrawdownFromReturns"
  /\ \E i \in 1..Len(mret) : FLess(mret[i], <<-1, 0>>)
  /\ FLess(mdd, <<-1, 0>>)

NonDecreasing(xs) == \A i \in 2..Len(xs) : FLeq(xs[i - 1], xs[i])

\* C6 as stated: for a non-empty series the maximum drawdown is 0 exactly
\* when the cumulative curve toCum(R) is non-decreasing throughout.
C6_ZeroIffCurveNonDecreasing ==
  (MddDone /\ mret # << >>) => (mdd = Zero <=> NonDecreasing(cum))

\* C6 amended: for a non-empty series the maximum drawdown is 0 exactly
\* when the cumulative curve preceded by its starting value 1 is
\* non-decreasing throughout.
C6_ZeroIffCurveFromOneNonDecreasing ==
  (MddDone /\ mret # << >>) =>
    (mdd = Zero <=> NonDecreasing(<<One>> \o cum))

\* a curve that never falls but starts below 1: the drawdown is negative
C6_Witness ==
  /\ mpc = "maxDrawdownFromReturns"
  /\ Len(mret) >= 2
  /\ NonDecreasing(cum)
  /\ FLess(cum[1], One)
  /\ FLess(mdd, Zero)

\* C7: on a non-empty series the Sharpe ratio is null exactly when the
\* annualized excess volatility is 0, and otherwise it is the annualized
\* excess mean divided by the annualized excess volatility, a number that
\* is not the outcome of a division by zero.
C7_SharpeNullIffZeroExVol ==
  (RowDone /\ mret # << >>) =>
    LET exVol == ExVol(mret, mrf, mfreq)
        exMean == ExMean(mret, mrf, mfreq)
    IN /\ (row.sharpe = Null <=> exVol = Zero)
       /\ (exVol # Zero =>
             row.sharpe = FDiv(FMul(exMean, mfreq), exVol))
       /\ row.sharpe # NotFinite

\* a series of several equal returns whose excess volatility is 0
C7_Witness ==
  /\ mpc = "calcMetricsFromDailyRet"
  /\ Len(mret) >= 2
  /\ ExVol(mret, mrf, mfreq) = Zero
  /\ row.sharpe = Null

\* C8: on the empty series the row is annualized return 0, annualized
\* volatility 0, Sharpe null and max drawdown 0 under the caller's label,
\* whatever the risk-free rate and freq.
C8_EmptySeriesDefaults ==
  (RowDone /\ mret = << >>) =>
    row = [factor |-> mfactor, ann_return |-> Zero, ann_vol |-> Zero,
           sharpe |-> Null, maxdd |-> Zero]

\* the empty series under a non-zero risk-free rate
C8_Witness ==
  /\ mpc = "calcMetricsFromDailyRet"
  /\ mret = << >>
  /\ mrf # Zero
  /\ row.factor = mfactor
  /\ row.sharpe = Null

\* C9: the detail page's calcMetrics reports Sharpe as null for the empty
\* series and for a series of zero annualized volatility, and annualized
\* return 0, volatility 0 and max drawdown 0 for the empty series.
C9_DetailSharpeNullWhenDegenerate ==
  mpc = "calcMetrics" =>
    /\ (mret = << >> =>
          detailRow = [ann_return |-> Zero, ann_vol |-> Zero,
                       sharpe |-> Null, maxdd |-> Zero])
    /\ (detailRow.ann_vol = Zero => detailRow.sharpe = Null)

AllZero(xs) == \A i \in 1..Len(xs) : xs[i] = Zero

\* C10: on an all-zero series of any length >= 1 and on any series of one
\* observation the annualized volatility is 0 and Sharpe is null; on the
\* all-zero series the max drawdown is 0.
C10_FlatOrSingleSharpeNull ==
  (RowDone /\ mret # << >> /\ (Len(mret) = 1 \/ AllZero(mret))) =>
    /\ row.ann_vol = Zero
    /\ row.sharpe = Null
    /\ (AllZero(mret) => row.maxdd = Zero)

\* ------------------------------------------------------ event alignment runs
MaxEvents == 2     \* longest enumerated event list

S_0320 == <<"2", "0", "2", "0", "-", "0", "3", "-", "2", "0">>
S_0401 == <<"2", "0", "2", "0", "-", "0", "4", "-", "0", "1">>
S_05 == <<"2", "0", "2", "0", "-", "0", "5">>

\* the benchmark's observation dates, ascending in the calendar
BenchDates == <<S_0313, S_0316, S_0320, S_04>>

\* 3/8, -1/2, 1/4, 3/8
BenchRets == <<<<3, -3>>, <<-1, -1>>, <<1, -2>>, <<3, -3>>>>

StrictlyUp(s) == \A i \in 2..Len(s) : s[i - 1] < s[i]

\* every selection of at most MaxLen observation dates, in calendar order
BenchDateSeqs ==
  {[i \in 1..Len(s) |-> BenchDates[s[i]]] :
     s \in {t \in SeqsUpTo(1..Len(BenchDates), MaxLen) : StrictlyUp(t)}}

BenchInputs ==
  {Null}
  \cup {<<[factor |-> "Top300", dates |-> <<S_0313, S_0316>>,
           ret |-> << >>]>>}
  \cup {<<[factor |-> "Top300", dates |-> ds,
           ret |-> [i \in 1..Len(ds) |-> BenchRets[i]]]>> :
          ds \in BenchDateSeqs}

EventTypes == {"peak", "trough", "flat"}
EventDates == {S_0313, S_0315, S_0401, S_05, << >>}
Events == [type : EventTypes, date : EventDates]

SecondArtifact ==
  [key |-> "PE_low", hasEvents |-> TRUE,
   events |-> <<[type |-> "peak", date |-> S_0313]>>]

FirstArtifacts ==
  {[key |-> "Top300", hasEvents |-> FALSE, events |-> << >>]}
  \cup {[key |-> "Top300", hasEvents |-> TRUE, events |-> es] :
          es \in SeqsUpTo(Events, MaxEvents)}

GwDataInputs ==
  {<< >>} \cup {<<a>> : a \in FirstArtifacts}
          \cup {<<a, SecondArtifact>> : a \in FirstArtifacts}

InitSignal ==
  /\ benchSeries \in BenchInputs
  /\ gwData \in GwDataInputs
  /\ gwBenchmark = "Top300"
  /\ signal = Null
  /\ spc = "input"
  /\ NonSignalIdle

GwSignalTraces ==
  /\ spc = "input"
  /\ signal' = gwSignalTraces(benchSeries, gwData, gwBenchmark)
  /\ spc' = "gwSignalTraces"
  /\ UNCHANGED <<benchSeries, gwData, gwBenchmark>>
  /\ UNCHANGED nonSignalVars

NextSignal == GwSignalTraces

SpecSignal == InitSignal /\ [][NextSignal]_vars

\* ---------------------------------------------------- event alignment claims
SignalDrawn == spc = "gwSignalTraces" /\ signal # Null

\* the pooled events as the contract describes them: the kinded, dated
\* events of the first artifact
PooledEvents ==
  IF gwData = << >> THEN << >>
  ELSE IF ~gwData[1].hasEvents THEN << >>
  ELSE SelectSeq(gwData[1].events,
                 LAMBDA e : e.date # << >> /\ e.type \in {"peak", "trough"})

BenchX == benchSeries[1].dates

MinOf(S) == CHOOSE i \in S : \A j \in S : i <= j

\* the first observation on or after the event's calendar day, 0 if none
CalendarTarget(k) ==
  LET T == {i \in 1..Len(BenchX) :
              parseDate(BenchX[i])[1] >= parseDate(PooledEvents[k].date)[1]}
  IN IF T = {} THEN 0 ELSE MinOf(T)

\* the first observation whose date string is not below the event's
StringTarget(k) ==
  LET T == {i \in 1..Len(BenchX) : StrGeq(BenchX[i], PooledEvents[k].date)}
  IN IF T = {} THEN 0 ELSE MinOf(T)

\* the targets of the pooled events of one kind that have one, in pool order
RECURSIVE TargetsOf(_, _, _)
TargetsOf(kind, calendar, k) ==
  IF k > Len(PooledEvents) THEN << >>
  ELSE LET t == IF calendar THEN CalendarTarget(k) ELSE StringTarget(k)
       IN IF PooledEvents[k].type = kind /\ t # 0
          THEN <<t>> \o TargetsOf(kind, calendar, k + 1)
          ELSE TargetsOf(kind, calendar, k + 1)

DatesAt(idxs) == [j \in 1..Len(idxs) |-> BenchX[idxs[j]]]

\* C11: every pooled event that has an observation on or after its
\* calendar date is marked at the first such observation (the original
\* statement; the string comparison of the source breaks it)
C11_AlignsToFirstObservationOnOrAfter ==
  SignalDrawn =>
    /\ signal[1].peaksX = DatesAt(TargetsOf("peak", TRUE, 1))
    /\ signal[1].troughX = DatesAt(TargetsOf("trough", TRUE, 1))

\* C12: the markers are as many as the pooled events that are not dated
\* after the last observation, and events after it leave no marker (the
\* original statement; it fails on the input that breaks C11)
C12_MarkersCountEventsNotAfterLast ==
  SignalDrawn =>
    LET last == parseDate(BenchX[Len(BenchX)])[1]
        inside == {k \in 1..Len(PooledEvents) :
                     parseDate(PooledEvents[k].date)[1] <= last}
    IN /\ Len(signal[1].peaksX) + Len(signal[1].troughX)
            = Cardinality(inside)
       /\ inside = {} => signal[1].peaksX = << >> /\ signal[1].troughX = << >>

\* C13: the aligned events are split by kind, in pool order; a marker's x
\* is the aligned observation's date, its y the cumulative curve there
C13_MarkersPartitionedByKind ==
  SignalDrawn =>
    LET p == TargetsOf("peak", FALSE, 1)
        t == TargetsOf("trough", FALSE, 1)
        curve == toCum(benchSeries[1].ret)
    IN /\ signal[1].peaksX = DatesAt(p)
       /\ signal[1].troughX = DatesAt(t)
       /\ signal[1].peaksY = [j \in 1..Len(p) |-> curve[p[j]]]
       /\ signal[1].troughY = [j \in 1..Len(t) |-> curve[t[j]]]
       /\ signal[1].y = curve

\* two peaks aligned to different observations, the later one first in the
\* pool
C13_Witness ==
  /\ SignalDrawn
  /\ Len(signal[1].peaksX) = 2
  /\ signal[1].troughX = << >>
  /\ signal[1].peaksX[1] = S_0316
  /\ signal[1].peaksX[2] = S_0313
  /\ signal[1].peaksY[1] # signal[1].peaksY[2]

\* C14: one reference line per pooled event, at the event's own date and
\* in its kind's colour, dropped events included
C14_OneShapePerPooledEvent ==
  SignalDrawn =>
    /\ Len(signal[1].shapes) = Len(PooledEvents)
    /\ \A k \in 1..Len(PooledEvents) :
         /\ signal[1].shapes[k].x0 = PooledEvents[k].date
         /\ signal[1].shapes[k].x1 = PooledEvents[k].date
         /\ PooledEvents[k].type = "peak"
              => signal[1].shapes[k].color = PeakColor
         /\ PooledEvents[k].type = "trough"
              => signal[1].shapes[k].color = TroughColor

\* a pool with an event past the last observation and one between two
C14_Witness ==
  /\ SignalDrawn
  /\ Len(PooledEvents) = 2
  /\ StringTarget(1) = 0
  /\ StringTarget(2) # 0
  /\ BenchX[StringTarget(2)] # PooledEvents[2].date
  /\ PooledEvents[1].type # PooledEvents[2].type

\* ----------------------------------------------------------- heatmap runs
MaxMonths == 2     \* most months of an enumerated ranking artifact

\* month labels 2024-01, 2024-02, ...
MonthAt(i) == <<"2", "0", "2", "4", "-", "0">> \o IntChars(i)

MonthSeqs == {[i \in 1..k |-> MonthAt(i)] : k \in 0..MaxMonths}

\* one month's ranking, best first; "Size" has no colour in the table
RankLists ==
  {<< >>, <<"Top300">>, <<"PE_low", "Top300">>, <<"Top300", "PE_low">>,
   <<"Size", "Top300">>, <<"Top300", "PE_low", "Size">>}

\* the artifact's category lists
CategoryLists ==
  {<< >>, <<"PE_low">>, <<"Top300", "PE_low">>, <<"PE_low", "Top300">>,
   <<"Top300", "Top300">>, <<"PE_low", "Top300", "Size">>}

\* 1/8, null, NaN, -1/16
CellValues == <<<<1, -3>>, Null, NaN, <<-1, -4>>>>

\* a value matrix shaped after the rankings: months fewer by dropMonths,
\* each month's values fewer by dropRanks, the values taken in turn
ReturnsLike(rankedFactors, shift, dropMonths, dropRanks) ==
  [col \in 1..(Len(rankedFactors) - dropMonths) |->
     [r \in 1..(Len(rankedFactors[col]) - dropRanks) |->
        CellValues[((col + r + shift) % Len(CellValues)) + 1]]]

ReturnsInputs(rankedFactors) ==
  {ReturnsLike(rankedFactors, s, 0, 0) : s \in 0..(Len(CellValues) - 1)}
  \cup {ReturnsLike(rankedFactors, 1, 1, 0),
        ReturnsLike(rankedFactors, 1, 0, 1)}

Artifact(hm, m, hf, f, hrf, rk, hrr, rr) ==
  [hasMonths |-> hm, months |-> m, hasFactors |-> hf, factors |-> f,
   hasRankedFactors |-> hrf, ranked_factors |-> rk,
   hasRankedReturns |-> hrr, ranked_returns |-> rr]

HeatmapInputs ==
  {Null} \cup
  {<<Artifact(hm, IF hm THEN m ELSE << >>,
              hf, IF hf THEN f ELSE << >>,
              hrf, IF hrf THEN rk ELSE << >>,
              hrr, IF hrr THEN rr ELSE << >>)>> :
     hm \in BOOLEAN, m \in MonthSeqs, hf \in BOOLEAN, f \in CategoryLists,
     hrf \in BOOLEAN, hrr \in BOOLEAN,
     <<rk, rr>> \in UNION {{<<q, v>> : v \in ReturnsInputs(q)} :
                             q \in SeqsUpTo(RankLists, MaxMonths)}}

InitHeat ==
  /\ heatmap \in HeatmapInputs
  /\ heat = NotRendered
  /\ hpc = "input"
  /\ NonHeatIdle

EncodeHeatmap ==
  /\ hpc = "input"
  /\ heat' = encodeHeatmap(heatmap)
  /\ hpc' = "encoded"
  /\ UNCHANGED heatmap
  /\ UNCHANGED nonHeatVars

NextHeat == EncodeHeatmap

SpecHeat == InitHeat /\ [][NextHeat]_vars

\* ---------------------------------------------------------- heatmap claims
HeatEncoded == hpc = "encoded" /\ heat.rendered /\ ~heat.error

HeatCells == {<<r, c>> : r \in 1..Len(heat.z),
                         c \in 1..Len(heatmap[1].months)}

\* the label ranked r-th in month c, "" where the artifact has none
RankedLabel(r, c) ==
  IF heatmap[1].hasRankedFactors /\ c <= Len(heatmap[1].ranked_factors)
  THEN IF r <= Len(heatmap[1].ranked_factors[c])
       THEN heatmap[1].ranked_factors[c][r] ELSE ""
  ELSE ""

\* the value ranked r-th in month c, Undefined where the artifact has none
RankedValue(r, c) ==
  IF heatmap[1].hasRankedReturns /\ c <= Len(heatmap[1].ranked_returns)
  THEN IF r <= Len(heatmap[1].ranked_returns[c])
       THEN heatmap[1].ranked_returns[c][r] ELSE Undefined
  ELSE Undefined

InList(label, list) == \E i \in 1..Len(list) : list[i] = label

\* C15: every cell of z holds the position (from 0) of the cell's label in
\* the category list, -1 for a label that is not in the list; reading the
\* list at z gives the label back
C15_CodeRoundTrip ==
  HeatEncoded =>
    /\ heatmap[1].hasFactors => heat.factorList = heatmap[1].factors
    /\ \A rc \in HeatCells :
         LET label == RankedLabel(rc[1], rc[2])
             code == heat.z[rc[1]][rc[2]]
         IN IF InList(label, heat.factorList)
            THEN /\ code \in 0..(Len(heat.factorList) - 1)
                 /\ heat.factorList[code + 1] = label
            ELSE code = -1

\* categories [Top300, PE_low], one month ranked [PE_low, Top300]
C15_Witness ==
  /\ HeatEncoded
  /\ heatmap[1].hasFactors
  /\ heatmap[1].factors = <<"Top300", "PE_low">>
  /\ heatmap[1].ranked_factors = <<<<"PE_low", "Top300">>>>
  /\ Len(heatmap[1].months) = 1
  /\ heat.z = <<<<1>>, <<0>>>>

\* C16: k categories give 2k stops, two per category at i/k and (i+1)/k in
\* the category's colour (the table's, or the default); the positions
\* never decrease, start at 0 and end at 1
C16_TwoStopsPerCategory ==
  HeatEncoded =>
    LET k == Len(heat.factorList)
        cs == heat.colorscale
    IN /\ Len(cs) = 2 * k
       /\ \A i \in 0..(k - 1) :
            LET f == heat.factorList[i + 1]
                colour == IF FACTOR_COLORS(f) = "" THEN DefaultColor
                          ELSE FACTOR_COLORS(f)
            IN /\ cs[2 * i + 1] = [pos |-> FDiv(FInt(i), FInt(k)),
                                   color |-> colour]
               /\ cs[2 * i + 2] = [pos |-> FDiv(FInt(i + 1), FInt(k)),
                                   color |-> colour]
       /\ \A j \in 2..Len(cs) : FLeq(cs[j - 1].pos, cs[j].pos)
       /\ k >= 1 => cs[1].pos = Zero /\ cs[2 * k].pos = One

\* three categories, the last one without a colour of its own
C16_Witness ==
  /\ HeatEncoded
  /\ heat.factorList = <<"PE_low", "Top300", "Size">>
  /\ Len(heat.colorscale) = 6
  /\ heat.colorscale[1].color = "#7f7f7f"
  /\ heat.colorscale[5].color = DefaultColor
  /\ FLess(heat.colorscale[2].pos, heat.colorscale[4].pos)

C20_TotalOverMissingFields ==
  (hpc = "encoded" /\ heatmap # Null) =>
    (heatmap[1].hasMonths =>
       /\ ~heat.error
       /\ heat.rendered
       /\ ~heatmap[1].hasRankedFactors => heat.z = << >>
       /\ ~heatmap[1].hasRankedReturns =>
            \A rc \in HeatCells : heat.text[rc[1]][rc[2]].pct = NA)

\* ------------------------------------------------------ dashboard: returns
MaxChanges == 2    \* most input changes a user makes in a run

\* 252 periods per year
TradingDays == <<63, 2>>

S_2003 == <<"2", "0", "0", "3", "-", "0", "1", "-", "0", "1">>
S_2025 == <<"2", "0", "2", "5", "-", "1", "2", "-", "3", "1">>

\* the returns artifact the server holds for a factor; an absent factor or
\* name field is ""
Fetched(f) ==
  CASE f = "Top300" ->
         [factor |-> "Top300", name |-> "",
          dates |-> <<S_0313, S_0316, S_0320>>,
          ret |-> <<<<3, -3>>, <<-1, -1>>, <<1, -2>>>>]
    [] f = "PE_low" ->
         [factor |-> "", name |-> "PE_low", dates |-> <<S_0313>>,
          ret |-> <<<<1, -2>>>>]
    [] OTHER -> [factor |-> "", name |-> "", dates |-> << >>, ret |-> << >>]

\* the factors field of the manifests the server may hold
ManifestFiles ==
  {<< >>, <<"Top300", "PE_low">>, <<"Size", "", "PE_low">>, <<"Size", "Size">>}

\* the place of a name in the order of localeCompare
LocaleRank(x) ==
  CASE x = "PE_low" -> 1
    [] x = "Size" -> 2
    [] x = "Top300" -> 3
    [] OTHER -> 0

\* names.sort((a, b) => a.localeCompare(b)), a stable sort
RECURSIVE insertSorted(_, _)
insertSorted(sorted, x) ==
  IF sorted = << >> THEN <<x>>
  ELSE IF LocaleRank(x) < LocaleRank(Head(sorted)) THEN <<x>> \o sorted
  ELSE <<Head(sorted)>> \o insertSorted(Tail(sorted), x)

RECURSIVE sortNames(_, _)
sortNames(names, i) ==
  IF i = 0 THEN << >>
  ELSE insertSorted(sortNames(names, i - 1), names[i])

\* the non-blank names of the manifest, sorted
listFactorsFromGithub(raw) ==
  LET names == SelectSeq(raw, LAMBDA x : x # "")
  IN sortNames(names, Len(names))

StartChoices == {S_2003, S_0316, << >>}
EndChoices == {S_2025, S_0316}

\* { factor: d.factor || d.name || f, dates: d.dates || [], ret: d.ret || [] }
normalized(f) ==
  LET d == Fetched(f) IN
  [factor |-> IF d.factor # "" THEN d.factor
              ELSE IF d.name # "" THEN d.name ELSE f,
   dates |-> d.dates, ret |-> d.ret]

\* obj: the clipped series of each selected factor, keyed by the factor
loadSeries(sel, s, e) ==
  [i \in 1..Len(sel) |->
     [key |-> sel[i], value |-> clipByRange(normalized(sel[i]), s, e)]]

\* obj[f]?.ret || []
retOf(obj, f) ==
  IF \E i \in 1..Len(obj) : obj[i].key = f
  THEN obj[CHOOSE i \in 1..Len(obj) : obj[i].key = f].value.ret
  ELSE << >>

\* the rows of the selected factors that have an observation in the range
RECURSIVE loadMetrics_skipEmpty(_, _, _)
loadMetrics_skipEmpty(sel, obj, r) ==
  IF sel = << >> THEN << >>
  ELSE (IF retOf(obj, Head(sel)) = << >> THEN << >>
        ELSE <<calcMetricsFromDailyRet(Head(sel), retOf(obj, Head(sel)),
                                       r, TradingDays)>>)
       \o loadMetrics_skipEmpty(Tail(sel), obj, r)

\* selected.map((f) => calcMetricsFromDailyRet(f, obj[f]?.ret || [], rf, 252))
loadMetrics(sel, obj, r) ==
  [i \in 1..Len(sel) |->
     calcMetricsFromDailyRet(sel[i], retOf(obj, sel[i]), r, TradingDays)]

Includes(list, f) == \E i \in 1..Len(list) : list[i] = f

\* selected.filter((x) => x !== f)
Without(list, f) == SelectSeq(list, LAMBDA x : x # f)

\* ["Top300", "PE_low", "PB_low"].filter((x) => list.includes(x))
GwDefaults(list) ==
  SelectSeq(<<"Top300", "PE_low", "PB_low">>, LAMBDA x : Includes(list, x))

\* list.slice(0, Math.min(3, list.length))
FirstThree(list) == SubSeq(list, 1, IF Len(list) < 3 THEN Len(list) ELSE 3)

Inputs(sel, s, e, r) == [sel |-> sel, start |-> s, end |-> e, rf |-> r]

\* the returns effect, run because one of its inputs has changed: with an
\* empty selection it clears series and metrics at once, otherwise it
\* starts a load that holds the inputs of this run
RunReturnsEffect(sel, s, e, r) ==
  IF sel = << >>
  THEN /\ series' = << >>
       /\ metrics' = << >>
       /\ applied' = << >>
       /\ UNCHANGED loads
  ELSE /\ loads' = loads \cup {Inputs(sel, s, e, r)}
       /\ UNCHANGED <<series, metrics, applied>>

InitDash ==
  /\ factors = << >>
  /\ manifest = "pending"
  /\ selected = <<"Top300">>
  /\ start = S_2003
  /\ end = S_2025
  /\ rf = Zero
  /\ series = << >>
  /\ metrics = << >>
  /\ gwSelected = <<"Top300", "PE_low", "PB_low">>
  /\ gwBenchmark = "Top300"
  /\ loads = {Inputs(<<"Top300">>, S_2003, S_2025, Zero)}
  /\ applied = << >>
  /\ changes = 0
  /\ NonDashIdle

\* the manifest arrives: the mount effect, whose closure holds the initial
\* selection
ManifestLoaded ==
  /\ manifest = "pending"
  /\ \E raw \in ManifestFiles :
       LET list == listFactorsFromGithub(raw)
           first == <<"Top300">>
           reselect == list # << >> /\ ~Includes(list, first[1])
           sel == IF reselect THEN <<list[1]>> ELSE selected
       IN /\ factors' = list
          /\ selected' = sel
          /\ gwSelected' = IF list = << >> THEN gwSelected
                           ELSE IF GwDefaults(list) # << >>
                           THEN GwDefaults(list) ELSE FirstThree(list)
          /\ gwBenchmark' = IF list = << >> THEN gwBenchmark
                            ELSE IF Includes(list, "Top300") THEN "Top300"
                            ELSE list[1]
          /\ IF sel # selected THEN RunReturnsEffect(sel, start, end, rf)
             ELSE UNCHANGED <<series, metrics, applied, loads>>
  /\ manifest' = "loaded"
  /\ UNCHANGED <<start, end, rf, changes>>
  /\ UNCHANGED nonDashVars

ManifestFails ==
  /\ manifest = "pending"
  /\ manifest' = "failed"
  /\ factors' = << >>
  /\ UNCHANGED <<selected, start, end, rf, series, metrics, gwSelected,
                 gwBenchmark, loads, applied, changes>>
  /\ UNCHANGED nonDashVars

\* a factor checkbox is ticked or cleared
ToggleSelected ==
  /\ changes < MaxChanges
  /\ \E i \in 1..Len(factors) :
       LET f == factors[i]
           sel == IF Includes(selected, f) THEN Without(selected, f)
                  ELSE Append(selected, f)
       IN /\ selected' = sel
          /\ RunReturnsEffect(sel, start, end, rf)
  /\ changes' = changes + 1
  /\ UNCHANGED <<factors, manifest, start, end, rf, gwSelected, gwBenchmark>>
  /\ UNCHANGED nonDashVars

SetStart ==
  /\ changes < MaxChanges
  /\ \E s \in StartChoices \ {start} :
       /\ start' = s
       /\ RunReturnsEffect(selected, s, end, rf)
  /\ changes' = changes + 1
  /\ UNCHANGED <<factors, manifest, selected, end, rf, gwSelected,
                 gwBenchmark>>
  /\ UNCHANGED nonDashVars

SetEnd ==
  /\ changes < MaxChanges
  /\ \E e \in EndChoices \ {end} :
       /\ end' = e
       /\ RunReturnsEffect(selected, start, e, rf)
  /\ changes' = changes + 1
  /\ UNCHANGED <<factors, manifest, selected, start, rf, gwSelected,
                 gwBenchmark>>
  /\ UNCHANGED nonDashVars

SetRf ==
  /\ changes < MaxChanges
  /\ \E r \in RfRates \ {rf} :
       /\ rf' = r
       /\ RunReturnsEffect(selected, start, end, r)
  /\ changes' = changes + 1
  /\ UNCHANGED <<factors, manifest, selected, start, end, gwSelected,
                 gwBenchmark>>
  /\ UNCHANGED nonDashVars

\* a checkbox of the global-wave factor group is ticked or cleared (the
\* data its effect then fetches is the gwData of the signal runs)
ToggleGwSelected ==
  /\ changes < MaxChanges
  /\ \E i \in 1..Len(factors) :
       gwSelected' = IF Includes(gwSelected, factors[i])
                     THEN Without(gwSelected, factors[i])
                     ELSE Append(gwSelected, factors[i])
  /\ changes' = changes + 1
  /\ UNCHANGED <<factors, manifest, selected, start, end, rf, series,
                 metrics, gwBenchmark, loads, applied>>
  /\ UNCHANGED nonDashVars

\* an option of the benchmark select is chosen
SetGwBenchmark ==
  /\ changes < MaxChanges
  /\ \E i \in 1..Len(factors) :
       /\ factors[i] # gwBenchmark
       /\ gwBenchmark' = factors[i]
  /\ changes' = changes + 1
  /\ UNCHANGED <<factors, manifest, selected, start, end, rf, series,
                 metrics, gwSelected, loads, applied>>
  /\ UNCHANGED nonDashVars

\* every fetch of a load has answered: the load stores its series and rows
LoadSucceeds ==
  /\ \E l \in loads :
       LET obj == loadSeries(l.sel, l.start, l.end) IN
       /\ series' = obj
       /\ metrics' = loadMetrics(l.sel, obj, l.rf)
       /\ applied' = <<l>>
       /\ loads' = loads \ {l}
  /\ UNCHANGED <<factors, manifest, selected, start, end, rf, gwSelected,
                 gwBenchmark, changes>>
  /\ UNCHANGED nonDashVars

\* a failed load that keeps the curve of the first factor
LoadFails_keepAnswered ==
  /\ \E l \in loads :
       /\ series' = loadSeries(<<l.sel[1]>>, l.start, l.end)
       /\ metrics' = loadMetrics(<<l.sel[1]>>, series', l.rf)
       /\ applied' = << >>
       /\ loads' = loads \ {l}
  /\ UNCHANGED <<factors, manifest, selected, start, end, rf, gwSelected,
                 gwBenchmark, changes>>
  /\ UNCHANGED nonDashVars

\* a fetch of a load has failed: the load clears series and metrics
LoadFails ==
  /\ \E l \in loads :
       /\ series' = << >>
       /\ metrics' = << >>
       /\ applied' = << >>
       /\ loads' = loads \ {l}
  /\ UNCHANGED <<factors, manifest, selected, start, end, rf, gwSelected,
                 gwBenchmark, changes>>
  /\ UNCHANGED nonDashVars

NextDash ==
  \/ ManifestLoaded
  \/ ManifestFails
  \/ ToggleSelected
  \/ SetStart
  \/ SetEnd
  \/ SetRf
  \/ ToggleGwSelected
  \/ SetGwBenchmark
  \/ LoadSucceeds
  \/ LoadFails

SpecDash == InitDash /\ [][NextDash]_vars

\* --------------------------------------------------------- dashboard claims
\* the factor's artifact has an observation inside [s, e] (a bound that
\* does not parse does not restrict)
HasObservationIn(f, s, e) ==
  \E i \in 1..Len(Fetched(f).dates) :
    \/ parseDate(s) = Null
    \/ parseDate(e) = Null
    \/ /\ parseDate(Fetched(f).dates[i]) # Null
       /\ parseDate(s)[1] <= parseDate(Fetched(f).dates[i])[1]
       /\ parseDate(Fetched(f).dates[i])[1] <= parseDate(e)[1]

\* C18: once a load has stored its result, the table has one row per
\* factor of the load's selection, in that order, and the row of a factor
\* without an observation in the range is the empty-series row
C18_OneRowPerSelectedFactor ==
  applied # << >> =>
    /\ Len(metrics) = Len(applied[1].sel)
    /\ \A i \in 1..Len(metrics) :
         /\ metrics[i].factor = applied[1].sel[i]
         /\ ~HasObservationIn(applied[1].sel[i], applied[1].start,
                              applied[1].end)
              => metrics[i] = [factor |-> applied[1].sel[i],
                               ann_return |-> Zero, ann_vol |-> Zero,
                               sharpe |-> Null, maxdd |-> Zero]

\* the load of the current inputs has stored its result: two factors are
\* selected, the second of them with data but none inside the range
C18_Witness ==
  /\ applied = <<Inputs(selected, start, end, rf)>>
  /\ loads = {}
  /\ selected = <<"Top300", "PE_low">>
  /\ start = S_0316
  /\ Len(metrics) = 2
  /\ metrics[1].ann_vol # Zero
  /\ metrics[2].sharpe = Null

\* ------------------------------------------------- analytics functions runs
\* a run of the date-range filter, of the numeric functions or of the event
\* alignment
InitAnalytics == InitClip \/ InitMetrics \/ InitSignal

NextAnalytics == NextClip \/ NextMetrics \/ NextSignal

SpecAnalytics == InitAnalytics /\ [][NextAnalytics]_vars

\* every argument of the analytics functions is what it was before the step
ArgumentsKept ==
  /\ cd' = cd /\ cstart' = cstart /\ cend' = cend
  /\ cpc = "clipped" => clipped' = clipped
  /\ mfactor' = mfactor /\ mret' = mret /\ mrf' = mrf /\ mfreq' = mfreq
  /\ benchSeries' = benchSeries /\ gwData' = gwData
  /\ gwBenchmark' = gwBenchmark

\* calling a function again on its argument gives the result it gave
ResultsRepeat ==
  /\ ClipDone => clipByRange(cd, cstart, cend) = clipped
  /\ cpc = "reclipped" => clipByRange(clipped, cstart, cend) = reclipped
  /\ CumDone => toCum(mret) = cum
  /\ MddDone => maxDrawdownFromReturns(mret) = mdd
  /\ RowDone => calcMetricsFromDailyRet(mfactor, mret, mrf, mfreq) = row
  /\ spc = "gwSignalTraces"
       => gwSignalTraces(benchSeries, gwData, gwBenchmark) = signal

FMaxOf(S) == CHOOSE x \in S : \A y \in S : FLeq(y, x)

\* the smallest of a non-empty set of numbers
FMinOf(S) == CHOOSE x \in S : \A y \in S : FLeq(x, y)

\* peak_i = max(1, NAV_1, ..., NAV_i) over the cumulative curve nav
PeakAt(nav, i) == FMaxOf({One} \cup {nav[j] : j \in 1..i})

\* NAV_i / peak_i - 1
DrawdownAt(nav, i) == FSub(FDiv(nav[i], PeakAt(nav, i)), One)

\* C21: the maximum drawdown is the least NAV_i / peak_i - 1 over the
\* cumulative curve, the peak running from 1, and 0 if none is below 0
C21_MaxDrawdownIsReference ==
  MddDone =>
    mdd = FMinOf({Zero} \cup {DrawdownAt(toCum(mret), i) :
                                i \in 1..Len(mret)})

\* a fall after a rise above 1: the peak that counts is not the start
C21_Witness ==
  /\ MddDone
  /\ Len(mret) = 3
  /\ FLess(One, toCum(mret)[1])
  /\ FLess(toCum(mret)[2], toCum(mret)[1])
  /\ FLess(toCum(mret)[3], toCum(mret)[2])
  /\ mdd = DrawdownAt(toCum(mret), 3)
  /\ FLess(mdd, Zero)

\* ------------------------------------------------- factor detail page runs
\* the name props: absent, "", "  ", "undefined", "PE", "P_E"
NameProps ==
  {<< >>, <<<< >>>>, <<<<" ", " ">>>>, <<UndefinedLiteral>>,
   <<<<"P", "E">>>>, <<<<"P", "_", "E">>>>}

\* the pathnames: null, "/", "/f/PE", "/f/P%5FE/", "/f/P%20E", "//"
Pathnames ==
  {<< >>, <<<<"/">>>>, <<<<"/", "f", "/", "P", "E">>>>,
   <<<<"/", "f", "/", "P", "%", "5", "F", "E", "/">>>>,
   <<<<"/", "f", "/", "P", "%", "2", "0", "E">>>>,
   <<<<"/", "/">>>>}

MetaFile == [description |-> "low price to earnings"]

ReturnsFile == [factor |-> "PE_low", dates |-> <<S_0313, S_0316>>,
                ret |-> <<<<3, -3>>, <<-1, -1>>>>]

\* holdings artifacts: two months, no month, no months field
HoldingsFiles ==
  {[factor |-> "PE_low", hasMonths |-> TRUE,
    months |-> <<"2024-01", "2024-02">>],
   [factor |-> "PE_low", hasMonths |-> TRUE, months |-> << >>],
   [factor |-> "PE_low", hasMonths |-> FALSE, months |-> << >>]}

StockNamesFile == <<[ticker |-> "2330", label |-> "TSMC"]>>

\* h?.months || []
monthsOf(h) ==
  IF h = Null THEN << >>
  ELSE IF h[1].hasMonths THEN h[1].months ELSE << >>

\* months.length ? months[months.length - 1] : ""
lastMonth(months) == IF Len(months) > 0 THEN months[Len(months)] ELSE ""

\* the load effect, run because safeName has changed (or at mount): with
\* an empty name FactorDetailClient.tsx resets the four states and the
\* copy in part_003 only returns; otherwise a load is started
RunDetailEffect(sn) ==
  IF sn = << >>
  THEN /\ IF variant = "FactorDetailClient"
          THEN meta' = Null /\ ret' = Null /\ hold' = Null /\ month' = ""
          ELSE UNCHANGED <<meta, ret, hold, month>>
       /\ UNCHANGED dloads
  ELSE /\ dloads' = dloads \cup {sn}
       /\ UNCHANGED <<meta, ret, hold, month>>

InitDetail ==
  /\ variant \in {"FactorDetailClient", "part_003"}
  /\ name \in NameProps
  /\ pathname \in Pathnames
  /\ meta = Null
  /\ ret = Null
  /\ hold = Null
  /\ stockNames = << >>
  /\ month = ""
  /\ dloads = IF safeName(name, pathname) = << >> THEN {}
              ELSE {safeName(name, pathname)}
  /\ answers = << >>
  /\ visits = 0
  /\ NonDetailIdle

\* the page is rendered with other props
Navigate ==
  /\ visits < MaxChanges
  /\ \E n \in NameProps, p \in Pathnames :
       /\ <<n, p>> # <<name, pathname>>
       /\ name' = n
       /\ pathname' = p
       /\ IF safeName(n, p) # safeName(name, pathname)
          THEN RunDetailEffect(safeName(n, p))
          ELSE UNCHANGED <<meta, ret, hold, month, dloads>>
  /\ visits' = visits + 1
  /\ UNCHANGED <<variant, stockNames, answers>>
  /\ UNCHANGED nonDetailVars

\* every fetch of a load has settled, each one answered or failed by
\* itself (a failed one resolves to null, the stock names to {}); only
\* the copy in part_003 fetches the stock names
DetailLoadCompletes_allOrNothing ==
  /\ \E l \in dloads, okM \in BOOLEAN, okR \in BOOLEAN,
        h \in {Null} \cup {<<f>> : f \in HoldingsFiles},
        okN \in BOOLEAN :
       LET ok == okM /\ okR /\ h # Null /\ okN IN
       /\ meta' = IF ok THEN <<MetaFile>> ELSE Null
       /\ ret' = IF ok THEN <<ReturnsFile>> ELSE Null
       /\ hold' = IF ok THEN h ELSE Null
       /\ stockNames' = IF variant = "part_003" /\ ok
                        THEN StockNamesFile ELSE << >>
       /\ month' = IF ok THEN lastMonth(monthsOf(h)) ELSE ""
       /\ answers' = <<[m |-> okM, r |-> okR, h |-> h # Null,
                        names |-> variant = "part_003" /\ okN]>>
       /\ dloads' = dloads \ {l}
  /\ UNCHANGED <<variant, name, pathname, visits>>
  /\ UNCHANGED nonDetailVars

DetailLoadCompletes ==
  /\ \E l \in dloads, okM \in BOOLEAN, okR \in BOOLEAN,
        h \in {Null} \cup {<<f>> : f \in HoldingsFiles},
        okN \in BOOLEAN :
       /\ meta' = IF okM THEN <<MetaFile>> ELSE Null
       /\ ret' = IF okR THEN <<ReturnsFile>> ELSE Null
       /\ hold' = h
       /\ stockNames' = IF variant = "part_003" /\ okN
                        THEN StockNamesFile ELSE << >>
       /\ month' = lastMonth(monthsOf(h))
       /\ answers' = <<[m |-> okM, r |-> okR, h |-> h # Null,
                        names |-> variant = "part_003" /\ okN]>>
       /\ dloads' = dloads \ {l}
  /\ UNCHANGED <<variant, name, pathname, visits>>
  /\ UNCHANGED nonDetailVars

\* the month select offers the months of the holdings
ChooseMonth ==
  /\ \E i \in 1..Len(monthsOf(hold)) :
       /\ monthsOf(hold)[i] # month
       /\ month' = monthsOf(hold)[i]
  /\ UNCHANGED <<variant, name, pathname, meta, ret, hold, stockNames,
                 dloads, answers, visits>>
  /\ UNCHANGED nonDetailVars

NextDetail == Navigate \/ DetailLoadCompletes \/ ChooseMonth

SpecDetail == InitDetail /\ [][NextDetail]_vars

\* ----------------------------------------------- factor detail page claims
\* a load has just stored its result
DetailLoadStored == dloads' # dloads /\ dloads' \subseteq dloads

\* what the load step leaves behind
EachArtifactByItself ==
  /\ meta' # Null <=> answers'[1].m
  /\ ret' # Null <=> answers'[1].r
  /\ hold' # Null <=> answers'[1].h
  /\ stockNames' # << >> <=> answers'[1].names
  /\ month' = IF hold' = Null THEN ""
              ELSE IF ~hold'[1].hasMonths THEN ""
              ELSE IF hold'[1].months = << >> THEN ""
              ELSE hold'[1].months[Len(hold'[1].months)]

\* C22: when a load of the detail page stores its result, each artifact is
\* shown exactly if its own fetch answered, whatever the other fetches
\* did, and the month is the last of the holdings' months, "" without
C22_ArtifactsResolvedIndependently ==
  [][DetailLoadStored => EachArtifactByItself]_vars

\* meta failed, returns and holdings answered
C22_Witness ==
  /\ answers # << >>
  /\ ~answers[1].m /\ answers[1].r /\ answers[1].h
  /\ meta = Null
  /\ ret # Null
  /\ hold # Null
  /\ month = "2024-02"

NameUsable ==
  /\ name # << >>
  /\ name[1] # UndefinedLiteral
  /\ \E i \in 1..Len(name[1]) : name[1][i] # " "

\* the positions of the last non-empty segment of the pathname: from the
\* character after the last slash that has one, up to the next slash
LastSegment ==
  LET p == pathname[1]
      ends == {i \in 1..Len(p) : p[i] # "/"}
      last == CHOOSE i \in ends : \A j \in ends : j <= i
      first == CHOOSE i \in 1..last :
                 /\ \A j \in i..last : p[j] # "/"
                 /\ i = 1 \/ p[i - 1] = "/"
  IN SubSeq(p, first, last)

HasSegment ==
  /\ pathname # << >>
  /\ \E i \in 1..Len(pathname[1]) : pathname[1][i] # "/"

SafeNameResolves ==
  safeName(name, pathname) =
    IF NameUsable THEN name[1]
    ELSE IF HasSegment THEN decodeURIComponent(LastSegment)
    ELSE << >>

\* the name has just become empty on FactorDetailClient.tsx
NameEmptied ==
  /\ variant = "FactorDetailClient"
  /\ safeName(name, pathname) # << >>
  /\ safeName(name', pathname') = << >>

\* C23: safeName is the usable name prop, else the decoded last non-empty
\* segment of the pathname, else ""; when it becomes empty no load is
\* started and meta, returns, holdings and month are reset
C23_SafeNameAndReset ==
  /\ []SafeNameResolves
  /\ [][NameEmptied => /\ dloads' = dloads
                        /\ meta' = Null /\ ret' = Null /\ hold' = Null
                        /\ month' = ""]_vars

\* the name comes from an escaped path segment
C23_Witness ==
  /\ ~NameUsable
  /\ pathname = <<<<"/", "f", "/", "P", "%", "5", "F", "E", "/">>>>
  /\ safeName(name, pathname) = <<"P", "_", "E">>
  /\ meta # Null
  /\ visits > 0

\* C24: once no load is in flight, the stored series and rows are those of
\* the current selection, range and risk-free rate, or empty when the last
\* load failed or nothing is selected (the original statement; a load
\* keeps the inputs of the render that started it and is never cancelled,
\* so a slower earlier load stores its result last)
C24_LatestInputsWin ==
  loads = {} =>
    \/ series = << >> /\ metrics = << >>
    \/ /\ selected # << >>
       /\ series = loadSeries(selected, start, end)
       /\ metrics = loadMetrics(selected, series, rf)

\* a load has just settled
LoadSettled == loads' # loads /\ loads' \subseteq loads

\* C25: a load that settles either clears both the series and the rows
\* (a fetch failed: nothing of the factors that answered is kept) or
\* stores the clipped series of every factor of its selection together
\* with the rows computed from those very series
C25_AllOrNothingPerLoad ==
  [][LoadSettled =>
       \/ series' = << >> /\ metrics' = << >> /\ applied' = << >>
       \/ \E l \in loads :
            /\ applied' = <<l>>
            /\ Len(series') = Len(l.sel)
            /\ \A i \in 1..Len(l.sel) :
                 /\ series'[i].key = l.sel[i]
                 /\ series'[i].value =
                      clipByRange(normalized(l.sel[i]), l.start, l.end)
                 /\ metrics'[i] =
                      calcMetricsFromDailyRet(l.sel[i], retOf(series', l.sel[i]),
                                              l.rf, TradingDays)
            /\ Len(metrics') = Len(l.sel)]_vars

\* a load of two factors has stored both curves and both rows
C25_Witness ==
  /\ applied # << >>
  /\ Len(applied[1].sel) = 2
  /\ Len(series) = 2
  /\ Len(metrics) = 2
  /\ series[2].value.dates # << >>
  /\ metrics[2].factor = series[2].key

NoDuplicates(list) ==
  \A i, j \in 1..Len(list) : list[i] = list[j] => i = j

AllListed(list) == \A i \in 1..Len(list) : Includes(factors, list[i])

\* the factor list has just loaded with a name in it
ListArrives == manifest = "pending" /\ manifest' = "loaded" /\ factors' # << >>

\* C26: once the factor list has loaded with a name in it, the selection,
\* the global-wave selection and the benchmark are names of the list, the
\* two selections have no duplicates, and the global-wave selection set
\* when the list arrives has one to three entries (the original statement;
\* a manifest that names a factor twice is copied into the selection)
C26_SelectionsWithinFactorList ==
  /\ [](manifest = "loaded" /\ factors # << >> =>
          /\ AllListed(selected)
          /\ AllListed(gwSelected)
          /\ Includes(factors, gwBenchmark)
          /\ NoDuplicates(selected)
          /\ NoDuplicates(gwSelected))
  /\ [][ListArrives => Len(gwSelected') \in 1..3]_vars

\* ------------------------------------- the calculator in exact arithmetic
\* a rational [n |-> numerator, d |-> denominator > 0] in lowest terms
RECURSIVE Gcd(_, _)
Gcd(a, b) == IF b = 0 THEN a ELSE Gcd(b, a % b)

Q(a, b) ==
  LET g == Gcd(Abs(a), Abs(b))
      s == IF b < 0 THEN -1 ELSE 1
  IN [n |-> (s * a) \div g, d |-> (s * b) \div g]

\* the rational a double stands for
QOf(x) == IF x[2] >= 0 THEN Q(x[1] * Pow2(x[2]), 1) ELSE Q(x[1], Pow2(-x[2]))

QZero == Q(0, 1)
QAdd(x, y) ==
  LET l == (x.d \div Gcd(x.d, y.d)) * y.d
  IN Q(x.n * (l \div x.d) + y.n * (l \div y.d), l)
QSub(x, y) == QAdd(x, [n |-> -y.n, d |-> y.d])
QMul(x, y) ==
  LET a == Q(x.n, y.d)
      b == Q(y.n, x.d)
  IN [n |-> a.n * b.n, d |-> a.d * b.d]
QDiv(x, y) == QMul(x, Q(y.d, y.n))

\* xs.reduce((a, b) => a + b, 0)
RECURSIVE QSum(_, _)
QSum(xs, i) == IF i = 0 THEN QZero ELSE QAdd(QSum(xs, i - 1), xs[i])

QMean(xs) == QDiv(QSum(xs, Len(xs)), Q(Len(xs), 1))

\* xs.reduce((a, r) => a + (r - mean) ** 2, 0) / Math.max(1, n - 1)
RECURSIVE QSumSqDev(_, _, _)
QSumSqDev(xs, mean, i) ==
  IF i = 0 THEN QZero
  ELSE QAdd(QSumSqDev(xs, mean, i - 1),
            QMul(QSub(xs[i], mean), QSub(xs[i], mean)))

QVar(xs) ==
  QDiv(QSumSqDev(xs, QMean(xs), Len(xs)),
       Q(IF Len(xs) - 1 > 1 THEN Len(xs) - 1 ELSE 1, 1))

QRet(rets) == [i \in 1..Len(rets) |-> QOf(rets[i])]

\* excess returns that lower the first observation only
QExcessOf_firstOnly(rets, rfAnnual, freq) ==
  [i \in 1..Len(rets) |->
     IF i = 1 THEN QSub(QOf(rets[i]), QDiv(QOf(rfAnnual), QOf(freq)))
     ELSE QOf(rets[i])]

\* ret.map((r) => r - rfDaily)
QExcessOf(rets, rfAnnual, freq) ==
  [i \in 1..Len(rets) |-> QSub(QOf(rets[i]), QDiv(QOf(rfAnnual), QOf(freq)))]

\* Math.sqrt is one-to-one on the non-negative numbers and 0 only at 0: a
\* volatility is kept as its square, var_ * freq and exVar * freq
QVolSquared(rets, freq) == QMul(QVar(QRet(rets)), QOf(freq))

QExVolSquared(rets, rfAnnual, freq) ==
  QMul(QVar(QExcessOf(rets, rfAnnual, freq)), QOf(freq))

\* exVol === 0 ? null : (exMean * freq) / exVol, the quotient kept as its
\* numerator and the square of its denominator
QSharpe(rets, rfAnnual, freq) ==
  IF QExVolSquared(rets, rfAnnual, freq) = QZero THEN Null
  ELSE <<QMul(QMean(QExcessOf(rets, rfAnnual, freq)), QOf(freq)),
         QExVolSquared(rets, rfAnnual, freq)>>

\* C27: computed in exact arithmetic, the annualized excess volatility of
\* calcMetricsFromDailyRet equals the annualized volatility under every
\* risk-free rate, so Sharpe is null exactly when the volatility is 0; and
\* the annualized return, volatility and max drawdown of the row are the
\* same under every risk-free rate
C27_ExcessVolatilityIsVolatility ==
  (RowDone /\ mret # << >>) =>
    /\ QExVolSquared(mret, mrf, mfreq) = QVolSquared(mret, mfreq)
    /\ QSharpe(mret, mrf, mfreq) = Null <=> QVolSquared(mret, mfreq) = QZero
    /\ \A r \in RfRates :
         LET other == calcMetricsFromDailyRet(mfactor, mret, r, mfreq)
         IN /\ other.ann_return = row.ann_return
            /\ other.ann_vol = row.ann_vol
            /\ other.maxdd = row.maxdd

\* three different returns under a risk-free rate of 3/64
C27_Witness ==
  /\ RowDone
  /\ Len(mret) = 3
  /\ mret[1] # mret[2]
  /\ mret[2] # mret[3]
  /\ mrf = <<3, -6>>
  /\ QVolSquared(mret, mfreq) # QZero
  /\ QSharpe(mret, mrf, mfreq) # Null
  /\ QMean(QExcessOf(mret, mrf, mfreq)) # QMean(QRet(mret))

\* ------------------------------------------------------- event pool claim
Pooled(e) == e.date # << >> /\ e.type \in {"peak", "trough"}

\* the first artifact has an event that enters the pool
FirstHasPooled ==
  /\ gwData # << >>
  /\ gwData[1].hasEvents
  /\ \E k \in 1..Len(gwData[1].events) : Pooled(gwData[1].events[k])

\* the loaded map cut down to its first key
FirstOnly == IF gwData = << >> THEN << >> ELSE <<gwData[1]>>

zmin == 0

zmax_length(factorList) == Len(factorList)

zmax(factorList) == Len(factorList) - 1

\* where the plot reads the colorscale for a code: (z - zmin) / (zmax - zmin)
Normalized(code) ==
  FDiv(FInt(code - zmin), FInt(zmax(heat.factorList) - zmin))

CategoryColour(i) ==
  IF FACTOR_COLORS(heat.factorList[i + 1]) = "" THEN DefaultColor
  ELSE FACTOR_COLORS(heat.factorList[i + 1])

\* C29: with two or more categories and the colour axis from 0 to k - 1,
\* the normalized position of every code i in 0..k-1 lies between the two
\* stops of category i, which carry that category's colour, and on neither
\* of the two ends it shares with a neighbouring band
C29_CodeInsideOwnBand ==
  (HeatEncoded /\ Len(heat.factorList) >= 2) =>
    \A i \in 0..(Len(heat.factorList) - 1) :
      LET lo == heat.colorscale[2 * i + 1]
          hi == heat.colorscale[2 * i + 2]
      IN /\ FLeq(lo.pos, Normalized(i))
         /\ FLeq(Normalized(i), hi.pos)
         /\ lo.color = CategoryColour(i)
         /\ hi.color = CategoryColour(i)
         /\ i > 0 => FLess(lo.pos, Normalized(i))
         /\ i < Len(heat.factorList) - 1 => FLess(Normalized(i), hi.pos)

\* three categories: the middle code sits at 1/2, inside its band
C29_Witness ==
  /\ HeatEncoded
  /\ Len(heat.factorList) = 3
  /\ Normalized(1) = <<1, -1>>
  /\ FLess(heat.colorscale[3].pos, Normalized(1))
  /\ FLess(Normalized(1), heat.colorscale[4].pos)
  /\ Normalized(2) = heat.colorscale[6].pos
  /\ \E rc \in HeatCells : heat.z[rc[1]][rc[2]] = 1

\* ------------------------------------------------------ matrix shape claim
\* the length of the first month's ranked list, 0 when it is missing
FirstListLen ==
  IF heatmap[1].hasRankedFactors /\ Len(heatmap[1].ranked_factors) > 0
  THEN Len(heatmap[1].ranked_factors[1]) ELSE 0

\* the ranked list of month c, empty when it is missing
ListOf(c) ==
  IF heatmap[1].hasRankedFactors /\ c <= Len(heatmap[1].ranked_factors)
  THEN heatmap[1].ranked_factors[c] ELSE << >>

\* C30: z and text have N rows of months.length columns each, N being the
\* length of the first month's ranked list; row r of a month holds the
\* label ranked r-th in it, a row past the end of a shorter list holds -1
\* and an empty label, and the entries of a longer list past N are left out
C30_MatrixShape ==
  HeatEncoded =>
    /\ Len(heat.z) = FirstListLen
    /\ Len(heat.text) = FirstListLen
    /\ Len(heat.yArr) = FirstListLen
    /\ \A r \in 1..FirstListLen :
         /\ Len(heat.z[r]) = Len(heatmap[1].months)
         /\ Len(heat.text[r]) = Len(heatmap[1].months)
         /\ heat.yArr[r] = r
         /\ \A c \in 1..Len(heatmap[1].months) :
              IF r <= Len(ListOf(c))
              THEN heat.text[r][c].label = ListOf(c)[r]
              ELSE /\ heat.z[r][c] = -1
                   /\ heat.text[r][c].label = ""

\* two months: the second list is shorter than the first
C30_Witness ==
  /\ HeatEncoded
  /\ Len(heatmap[1].months) = 2
  /\ FirstListLen = 2
  /\ Len(ListOf(2)) = 1
  /\ heat.z[2][2] = -1
  /\ heat.text[2][2].label = ""
  /\ heat.z[2][1] # -1
  /\ Len(heat.z[1]) = 2

====
